---- MODULE Spec2Model ----
(***************************************************************************)
(* Forecast orchestration and ensemble engine of the financial forecasting *)
(* backend (src/app/backend): the five forecasters, the forecast service   *)
(* and the ensemble combiner, as state machines over small frames.         *)
(*                                                                         *)
(* Numbers.  Python floats are modelled as exact extended rationals: a     *)
(* pair <<n, d>> in lowest terms with d >= 1, NaN as <<0, 0>> and the      *)
(* infinities as <<1, 0>> and <<-1, 0>>.  Floating-point rounding is not   *)
(* modelled.  np.sqrt is not rational, so a metrics object carries rmse2,  *)
(* the square of rmse; sqrt is strictly increasing with sqrt(0) = 0, so    *)
(* rmse = 0 iff rmse2 = 0 and rmse <= rmse' iff rmse2 <= rmse2'.           *)
(***************************************************************************)
EXTENDS Integers, Sequences, FiniteSets, TLC

VARIABLES
    ma,         \* the MovingAverageForecaster object
    arima,      \* the ARIMAForecaster object
    var,        \* the VARForecaster object
    lstm,       \* the LSTMForecaster object
    gru,        \* the GRUForecaster object
    out,        \* what the last forecaster call returned or raised
    trainer,    \* the ModelTrainer object: its dict of trained models
    registry,   \* models/<symbol>/<name>_model.{pkl,h5}: the stored artifacts
    db_rows,    \* number of historical_data rows stored for the symbol
    svc_out,    \* what the last ForecastService / endpoint call returned
    ens,        \* the EnsembleForecaster object: models and weights
    ens_out,    \* what the last EnsembleForecaster call returned or raised
    perf,       \* the model_performance collection: its records
    results,    \* the ModelEvaluator object's list of evaluation results
    eval_out,   \* what the last evaluator call returned
    sched,      \* the log of the last scheduler call: job bodies and symbols
    sched_out,  \* what the last scheduler call returned
    scheduler   \* the BackgroundScheduler: running flag, job store, executor

vars == <<ma, arima, var, lstm, gru, out, trainer, registry, db_rows, svc_out,
          ens, ens_out, perf, results, eval_out, sched, sched_out, scheduler>>

fcVars  == <<ma, arima, var, lstm, gru, out>>
svcVars == <<trainer, registry, db_rows, svc_out>>
ensVars == <<ens, ens_out>>
evalVars  == <<perf, results, eval_out>>
schedVars == <<sched, sched_out, scheduler>>

----------------------------------------------------------------------------
\* Bounds of the model.

MaxLen    == 2   \* rows of a training frame given to the moving average
MaxTest   == 2   \* rows of a test frame given to evaluate
MaxWindow == 2   \* largest window_size constructed explicitly
MaxSteps  == 2   \* largest horizon requested explicitly
MaxRows   == 2   \* most rows of historical data stored for the symbol
MaxDen    == 2   \* largest denominator of a stored ensemble weight
MaxRecords == 3  \* most records in the model_performance collection

\* Close prices that occur in the frames.
Prices == {10, 20}

----------------------------------------------------------------------------
\* Extended rational arithmetic (IEEE semantics without rounding).

Abs(x) == IF x < 0 THEN -x ELSE x

Max(a, b) == IF a >= b THEN a ELSE b

Min(a, b) == IF a <= b THEN a ELSE b

RECURSIVE GCD(_, _)
GCD(a, b) == IF b = 0 THEN a ELSE GCD(b, a % b)

Rat(n, d) ==
    LET s == IF d < 0 THEN -1 ELSE 1
        g == GCD(Abs(n), Abs(d))
    IN  <<(s * n) \div g, (s * d) \div g>>

FromInt(n) == <<n, 1>>

NaN == <<0, 0>>

Inf(sign) == <<sign, 0>>

IsNaN(x) == x = NaN

IsFinite(x) == x[2] # 0

Sign(x) == IF x[1] > 0 THEN 1 ELSE IF x[1] < 0 THEN -1 ELSE 0

RNeg(x) == <<-x[1], x[2]>>

RAbs(x) == <<Abs(x[1]), x[2]>>

RAdd(x, y) ==
    IF IsNaN(x) \/ IsNaN(y) THEN NaN
    ELSE IF IsFinite(x) /\ IsFinite(y) THEN Rat(x[1] * y[2] + y[1] * x[2], x[2] * y[2])
    ELSE IF ~IsFinite(x) /\ ~IsFinite(y) THEN (IF x = y THEN x ELSE NaN)
    ELSE IF IsFinite(x) THEN y ELSE x

RSub(x, y) == RAdd(x, RNeg(y))

RMul(x, y) ==
    IF IsNaN(x) \/ IsNaN(y) THEN NaN
    ELSE IF IsFinite(x) /\ IsFinite(y) THEN Rat(x[1] * y[1], x[2] * y[2])
    ELSE IF Sign(x) * Sign(y) = 0 THEN NaN
    ELSE Inf(Sign(x) * Sign(y))

\* numpy float division: x / 0 is nan for x = 0 and a signed infinity otherwise.
RDiv(x, y) ==
    IF IsNaN(x) \/ IsNaN(y) THEN NaN
    ELSE IF IsFinite(x) /\ IsFinite(y)
         THEN IF y[1] = 0
              THEN (IF x[1] = 0 THEN NaN ELSE Inf(Sign(x)))
              ELSE Rat(x[1] * y[2], x[2] * y[1])
    ELSE IF ~IsFinite(x) /\ ~IsFinite(y) THEN NaN
    ELSE IF IsFinite(x) THEN FromInt(0)
    ELSE Inf(Sign(x) * (IF y[1] < 0 THEN -1 ELSE 1))

\* x < y, x <= y on numbers that are not NaN (a comparison with NaN is False).
RLt(x, y) ==
    /\ ~IsNaN(x) /\ ~IsNaN(y)
    /\ IF IsFinite(x) /\ IsFinite(y) THEN x[1] * y[2] < y[1] * x[2]
       ELSE IF ~IsFinite(x) /\ ~IsFinite(y) THEN x[1] < y[1]
       ELSE IF IsFinite(x) THEN y[1] > 0 ELSE x[1] < 0

RLe(x, y) == ~IsNaN(x) /\ ~IsNaN(y) /\ (x = y \/ RLt(x, y))

RECURSIVE RSum(_)
RSum(s) == IF Len(s) = 0 THEN FromInt(0) ELSE RAdd(Head(s), RSum(Tail(s)))

\* np.mean / Series.mean: the mean of nothing is nan.
Mean(s) == IF Len(s) = 0 THEN NaN ELSE RDiv(RSum(s), FromInt(Len(s)))

SeqsUpTo(S, n) == UNION {[1..k -> S] : k \in 0..n}

\* Python's None and a present value.
None == [some |-> FALSE, val |-> <<>>]

Some(v) == [some |-> TRUE, val |-> v]

\* The outcome of a call: the value returned, or the exception raised.
Ok(v) == [err |-> "", val |-> v]

Raise(e) == [err |-> e, val |-> <<>>]

\* ValueError("Model must be trained first")
NotTrained == "ValueError: Model must be trained first"

----------------------------------------------------------------------------
\* Frames.  The Close column of a frame is a sequence of numbers, NaN where
\* the value is missing.

Cells == {FromInt(p) : p \in Prices} \cup {NaN}

TrainFrames == SeqsUpTo(Cells, MaxLen)

\* Test frames come from the stored bars, which data_service stores after
\* dropna(): their Close column has no missing value.
TestFrames == SeqsUpTo({FromInt(p) : p \in Prices}, MaxTest)

\* Series.dropna()
RECURSIVE dropna(_)
dropna(s) ==
    IF Len(s) = 0 THEN <<>>
    ELSE IF IsNaN(Head(s)) THEN dropna(Tail(s))
    ELSE <<Head(s)>> \o dropna(Tail(s))

\* Series.tail(n) for n >= 0: the last n rows, all of them when n > len.
tail(s, n) == IF n = 0 THEN <<>> ELSE SubSeq(s, Max(1, Len(s) - n + 1), Len(s))

\* np.full(steps, value)
np_full(steps, value) == [i \in 1..steps |-> value]

HasNonFinite(s) == \E i \in 1..Len(s) : ~IsFinite(s[i])

----------------------------------------------------------------------------
\* MovingAverageForecaster (models/moving_average_model.py)

DefaultWindowSize == 20

DefaultSteps == 24

MovingAverageForecaster_new(window_size) ==
    [window_size |-> window_size, trained_data |-> None]

MovingAverageForecaster_train(self, close) ==
    [self EXCEPT !.trained_data = Some(dropna(close))]

\* Mutant: the window is taken from the start of the series (head, not tail).
MovingAverageForecaster_predict_head(self, steps) ==
    IF ~self.trained_data.some THEN Raise(NotTrained)
    ELSE LET n           == Len(self.trained_data.val)
             last_values == SubSeq(self.trained_data.val, 1, Min(self.window_size, n))
         IN  Ok(np_full(steps, Mean(last_values)))

\* Mutant: the window's sum is returned, the division by its length forgotten.
MovingAverageForecaster_predict_sum(self, steps) ==
    IF ~self.trained_data.some THEN Raise(NotTrained)
    ELSE Ok(np_full(steps, RSum(tail(self.trained_data.val, self.window_size))))

MovingAverageForecaster_predict(self, steps) ==
    IF ~self.trained_data.some THEN Raise(NotTrained)
    ELSE LET last_values == tail(self.trained_data.val, self.window_size)
             ma_value    == Mean(last_values)
         IN  Ok(np_full(steps, ma_value))

MovingAverageForecaster_predict_with_trend(self, steps) ==
    IF ~self.trained_data.some THEN Raise(NotTrained)
    ELSE LET recent_data == tail(self.trained_data.val, self.window_size)
             n           == Len(recent_data)
             trend       == IF n >= 2
                            THEN RDiv(RSub(recent_data[n], recent_data[1]), FromInt(n))
                            ELSE FromInt(0)
         IN  IF n = 0 THEN Raise("IndexError")   \* recent_data.iloc[-1]
             ELSE Ok([i \in 1..steps |-> RAdd(recent_data[n], RMul(trend, FromInt(i)))])

\* The three metrics of an aligned pair of equal length n >= 1.
SquaredErrors(actual, predictions) ==
    [i \in 1..Len(actual) |->
        RMul(RSub(actual[i], predictions[i]), RSub(actual[i], predictions[i]))]

AbsErrors(actual, predictions) ==
    [i \in 1..Len(actual) |-> RAbs(RSub(actual[i], predictions[i]))]

AbsPctErrors(actual, predictions) ==
    [i \in 1..Len(actual) |-> RAbs(RDiv(RSub(actual[i], predictions[i]), actual[i]))]

np_mape(actual, predictions) ==
    RMul(Mean(AbsPctErrors(actual, predictions)), FromInt(100))

\* sklearn's mean_squared_error / mean_absolute_error reject an empty input
\* and an input holding NaN or infinity with a ValueError.
sklearn_rejects(actual, predictions) ==
    \/ Len(actual) = 0
    \/ Len(actual) # Len(predictions)
    \/ HasNonFinite(actual)
    \/ HasNonFinite(predictions)

MovingAverageForecaster_evaluate(self, test_close, use_trend) ==
    LET p == IF use_trend
             THEN MovingAverageForecaster_predict_with_trend(self, Len(test_close))
             ELSE MovingAverageForecaster_predict(self, Len(test_close))
    IN  IF p.err # "" THEN p
        ELSE IF sklearn_rejects(test_close, p.val) THEN Raise("ValueError: sklearn")
        ELSE Ok([rmse2       |-> Mean(SquaredErrors(test_close, p.val)),
                 mae         |-> Mean(AbsErrors(test_close, p.val)),
                 mape        |-> np_mape(test_close, p.val),
                 predictions |-> p.val,
                 actual      |-> test_close,
                 use_trend   |-> use_trend])

----------------------------------------------------------------------------
\* Frames given to the other forecasters.  Their fits are library calls; a
\* frame is known by its number of rows (all complete), and the outcome of a
\* library fit on it is an input of the operation.

MinVarRows == 50

MinSequences == 100

DefaultSequenceLength == 60

FrameRows ==
    {0, MinVarRows - 1, MinVarRows,
     DefaultSequenceLength - 1, DefaultSequenceLength,
     DefaultSequenceLength + MinSequences - 1,
     DefaultSequenceLength + MinSequences}

InsufficientData == "ValueError: Insufficient data"

\* The values of a library forecast are the fitted model's; the model keeps
\* their count and order: value i stands for the i-th forecast value.
RECURSIVE ForecastValues(_)
ForecastValues(steps) ==
    IF steps <= 0 THEN <<>> ELSE Append(ForecastValues(steps - 1), FromInt(steps))

\* A train call returns the object as it is afterwards and its outcome.
Trained(self, res) == [self |-> self, res |-> res]

----------------------------------------------------------------------------
\* ARIMAForecaster (models/arima_model.py)

ARIMAForecaster_new == [fitted_model |-> FALSE]

\* adfuller, the order search and ARIMA(...).fit() are statsmodels calls:
\* fit_ok says whether they all return.  fitted_model is assigned last.
ARIMAForecaster_train(self, rows, fit_ok) ==
    IF rows > 0 /\ fit_ok
    THEN Trained([self EXCEPT !.fitted_model = TRUE], Ok(<<>>))
    ELSE Trained(self, Raise("Exception: statsmodels"))

\* Mutant: the guard on fitted_model is missing.
ARIMAForecaster_predict_unguarded(self, steps) ==
    IF ~self.fitted_model THEN Raise("AttributeError") ELSE Ok(ForecastValues(steps))

ARIMAForecaster_predict(self, steps) ==
    IF ~self.fitted_model THEN Raise(NotTrained)
    ELSE Ok(ForecastValues(steps))    \* fitted_model.forecast(steps=steps)

----------------------------------------------------------------------------
\* VARForecaster (models/var_model.py)

VARForecaster_new == [fitted_model |-> FALSE]

VARForecaster_train(self, rows, fit_ok) ==
    IF rows < MinVarRows THEN Trained(self, Raise(InsufficientData))
    ELSE IF fit_ok THEN Trained([self EXCEPT !.fitted_model = TRUE], Ok(<<>>))
    ELSE Trained(self, Raise("Exception: statsmodels"))

\* statsmodels' VARResults.forecast(y, steps, exog_future=None): y, the prior
\* observations, is a required parameter; a call without it is a TypeError.
VARResults_forecast(y, steps) ==
    IF ~y.some THEN Raise("TypeError") ELSE Ok(ForecastValues(steps))

\* predict calls self.fitted_model.forecast(steps=steps): no y is passed.
VARForecaster_predict(self, steps) ==
    IF ~self.fitted_model THEN Raise(NotTrained)
    ELSE VARResults_forecast(None, steps)

----------------------------------------------------------------------------
\* LSTMForecaster and GRUForecaster (models/lstm_model.py, models/gru_model.py)

\* model: whether self.model is set; input_length: the number of time steps
\* of the network's input_shape (0 while there is no network); scaler:
\* whether self.scaler, a MinMaxScaler, holds a fit.
LSTMForecaster_init(sequence_length) ==
    [sequence_length |-> sequence_length, model |-> FALSE, input_length |-> 0,
     scaler |-> FALSE]

GRUForecaster_init(sequence_length) ==
    [sequence_length |-> sequence_length, model |-> FALSE, input_length |-> 0,
     scaler |-> FALSE]

LSTMForecaster_new == LSTMForecaster_init(DefaultSequenceLength)

GRUForecaster_new == GRUForecaster_init(DefaultSequenceLength)

\* build_model((X.shape[1], X.shape[2])): a network for windows of
\* sequence_length time steps, assigned to self.model before it is fitted.
build_model(self) == [self EXCEPT !.model = TRUE, !.input_length = self.sequence_length]

\* self.model.predict(current_sequence): Keras rejects an input whose
\* window length differs from the network's input_shape.
keras_predict(self) ==
    IF self.sequence_length # self.input_length
    THEN Raise("ValueError: incompatible input shape") ELSE Ok(<<>>)

\* prepare_data: MinMaxScaler.fit_transform rejects a frame without rows.
prepare_data(rows) == IF rows = 0 THEN Raise("ValueError: sklearn") ELSE Ok(rows)

\* create_sequences: one (window, target) pair per i in
\* range(sequence_length, len(data)); the number of pairs.
create_sequences(self, rows) == Max(0, rows - self.sequence_length)

\* self.scaler.fit_transform(features) inside prepare_data: fit() first
\* drops the fit the scaler holds, then fits it to the frame, which needs at
\* least one row.
MinMaxScaler_fit(self, rows) == [self EXCEPT !.scaler = rows > 0]

\* train: prepare_data (which refits the scaler), create_sequences, the
\* test on the number of sequences, then the network.
LSTMForecaster_train(self, rows, fit_ok) ==
    LET scaled == MinMaxScaler_fit(self, rows)
    IN  IF prepare_data(rows).err # "" THEN Trained(scaled, prepare_data(rows))
        ELSE IF create_sequences(self, rows) < MinSequences
             THEN Trained(scaled, Raise(InsufficientData))
        ELSE IF fit_ok THEN Trained(build_model(scaled), Ok(<<>>))
        ELSE Trained(build_model(scaled), Raise("Exception: keras"))

GRUForecaster_train(self, rows, fit_ok) ==
    LET scaled == MinMaxScaler_fit(self, rows)
    IN  IF prepare_data(rows).err # "" THEN Trained(scaled, prepare_data(rows))
        ELSE IF create_sequences(self, rows) < MinSequences
             THEN Trained(scaled, Raise(InsufficientData))
        ELSE IF fit_ok THEN Trained(build_model(scaled), Ok(<<>>))
        ELSE Trained(build_model(scaled), Raise("Exception: keras"))

\* The object after predict(data): a forecaster with a network runs
\* prepare_data on the frame, which refits the scaler.
after_predict(self, rows) == IF self.model THEN MinMaxScaler_fit(self, rows) ELSE self

\* The rollout loop: one prediction appended per iteration of range(steps).
RECURSIVE Rollout(_, _)
Rollout(predictions, remaining) ==
    IF remaining <= 0 THEN predictions
    ELSE Rollout(Append(predictions, FromInt(Len(predictions) + 1)), remaining - 1)

LSTMForecaster_predict(self, rows, steps) ==
    IF ~self.model THEN Raise(NotTrained)
    ELSE IF prepare_data(rows).err # "" THEN prepare_data(rows)
    ELSE IF rows < self.sequence_length THEN Raise("ValueError: reshape")
    ELSE IF steps > 0 /\ keras_predict(self).err # "" THEN keras_predict(self)
    ELSE Ok(Rollout(<<>>, steps))

GRUForecaster_predict(self, rows, steps) ==
    IF ~self.model THEN Raise(NotTrained)
    ELSE IF prepare_data(rows).err # "" THEN prepare_data(rows)
    ELSE IF rows < self.sequence_length
         THEN Raise("ValueError: Insufficient data for sequence length")
    ELSE IF steps > 0 /\ keras_predict(self).err # "" THEN keras_predict(self)
    ELSE Ok(Rollout(<<>>, steps))

----------------------------------------------------------------------------
\* Python call binding for predict(self, data=None, steps=24) of the
\* moving-average, ARIMA and VAR forecasters: positional arguments fill the
\* parameters in order, then keywords, then defaults.

IntArg(n) == [t |-> "int", v |-> n]

FrameArg(rows) == [t |-> "frame", v |-> rows]

\* A call: its positional arguments and its steps= keyword, if any.
Call(pos, kw_steps) == [pos |-> pos, kw_steps |-> kw_steps]

BindDataSteps(call) ==
    [data  |-> IF Len(call.pos) >= 1 THEN Some(call.pos[1]) ELSE None,
     steps |-> IF Len(call.pos) >= 2 THEN call.pos[2].v
               ELSE IF call.kw_steps.some THEN call.kw_steps.val
               ELSE DefaultSteps]

----------------------------------------------------------------------------
\* ModelTrainer (models/train_models.py): the baseline models and their files.

\* A frame of `rows` rows whose Close column is flat at `price`.
FlatFrame(rows, price) == [i \in 1..rows |-> FromInt(price)]

ModelNames == {"MovingAverage", "ARIMA", "VAR"}

NeuralNames == {"LSTM", "GRU"}

TrainerNames == ModelNames \cup NeuralNames

\* str.lower() on the model names in use.
lower(name) ==
    CASE name = "MovingAverage" -> "movingaverage"
      [] name = "ARIMA"         -> "arima"
      [] name = "VAR"           -> "var"
      [] name = "LSTM"          -> "lstm"
      [] name = "GRU"           -> "gru"
      [] name = "Ensemble"      -> "ensemble"
      [] OTHER                  -> name

\* The artifacts of one symbol's directory, by file name; None: no such file.
PklFile(stem) == [stem |-> stem, ext |-> "pkl"]

H5File(stem) == [stem |-> stem, ext |-> "h5"]

Files == {PklFile(lower(n)) : n \in ModelNames}
            \cup {H5File("lstm"), H5File("gru")}

ModelTrainer_new == [models |-> [n \in TrainerNames |-> None]]

\* train_baseline_models: each model in its own try/except; a model enters
\* self.models only when its train returned.
ModelTrainer_train_baseline_models(self, train_data, arima_ok, var_ok) ==
    LET ma_model == MovingAverageForecaster_train(
                        MovingAverageForecaster_new(DefaultWindowSize), train_data)
        a == ARIMAForecaster_train(ARIMAForecaster_new, Len(train_data), arima_ok)
        v == VARForecaster_train(VARForecaster_new, Len(train_data), var_ok)
    IN  [self EXCEPT
            !.models = [n \in TrainerNames |->
                CASE n = "MovingAverage" -> Some([class |-> n, obj |-> ma_model])
                  [] n = "ARIMA" -> IF a.res.err = "" THEN Some([class |-> n, obj |-> a.self])
                                    ELSE @[n]
                  [] n = "VAR"   -> IF v.res.err = "" THEN Some([class |-> n, obj |-> v.self])
                                    ELSE @[n]
                  [] OTHER       -> @[n]]]

MinNeuralRows == 200

\* train_neural_models: nothing below MinNeuralRows rows; else LSTM and GRU
\* with sequence_length=60, each in its own try/except.
ModelTrainer_train_neural_models(self, rows, lstm_ok, gru_ok) ==
    LET l == LSTMForecaster_train(LSTMForecaster_init(DefaultSequenceLength), rows, lstm_ok)
        g == GRUForecaster_train(GRUForecaster_init(DefaultSequenceLength), rows, gru_ok)
    IN  IF rows < MinNeuralRows THEN self
        ELSE [self EXCEPT
                !.models = [n \in TrainerNames |->
                    CASE n = "LSTM" -> IF l.res.err = ""
                                       THEN Some([class |-> n, obj |-> l.self]) ELSE @[n]
                      [] n = "GRU"  -> IF g.res.err = ""
                                       THEN Some([class |-> n, obj |-> g.self]) ELSE @[n]
                      [] OTHER      -> @[n]]]

\* hasattr(model, 'save_model'): the LSTM and GRU forecasters have one.
HasSaveModel(model) == model.class \in NeuralNames

\* The file save_models writes for the entry `name` of self.models.
SavePath(name, model) ==
    IF HasSaveModel(model) THEN H5File(lower(name)) ELSE PklFile(lower(name))

\* What the file holds: the Keras network alone (self.model.save), or the
\* whole pickled object.
FileContent(model) ==
    IF HasSaveModel(model) THEN [input_length |-> model.obj.input_length] ELSE model

\* save_model raises when there is no network; save_models catches it.
SaveSucceeds(model) == HasSaveModel(model) => model.obj.model

\* save_models: one file per entry of self.models; other files stay.
ModelTrainer_save_models(self, files) ==
    [f \in Files |->
        IF \E n \in TrainerNames :
              /\ self.models[n].some
              /\ f = SavePath(n, self.models[n].val)
              /\ SaveSucceeds(self.models[n].val)
        THEN LET n == CHOOSE n \in TrainerNames :
                          self.models[n].some /\ f = SavePath(n, self.models[n].val)
             IN  Some(FileContent(self.models[n].val))
        ELSE files[f]]

----------------------------------------------------------------------------
\* ForecastService (models/forecast_service.py) and the endpoints (main.py)

\* load_data: the symbol's rows, or ValueError when there are none.
ForecastService_load_data(rows) ==
    IF rows = 0 THEN Raise("ValueError: No data found") ELSE Ok(rows)

\* load_model: the .h5 file first, then the .pkl file, else not found.
ForecastService_load_model(files, model_name) ==
    LET stem == lower(model_name)
    IN  IF H5File(stem) \in Files /\ files[H5File(stem)].some
        THEN IF stem = "lstm"
             THEN Ok([class |-> "LSTM",
                      obj |-> [LSTMForecaster_new EXCEPT
                                  !.model = TRUE,
                                  !.input_length = files[H5File(stem)].val.input_length]])
             ELSE IF stem = "gru"
             THEN Ok([class |-> "GRU",
                      obj |-> [GRUForecaster_new EXCEPT
                                  !.model = TRUE,
                                  !.input_length = files[H5File(stem)].val.input_length]])
             ELSE Raise("ValueError: Unknown neural model")
        ELSE IF PklFile(stem) \in Files /\ files[PklFile(stem)].some
        THEN Ok(files[PklFile(stem)].val)
        ELSE Raise("ValueError: Model file not found")

\* model.predict(<call>) on a loaded object of one of the three classes with
\* the signature predict(self, data=None, steps=24).
predict_call(model, call) ==
    LET steps == BindDataSteps(call).steps
    IN  CASE model.class = "MovingAverage" -> MovingAverageForecaster_predict(model.obj, steps)
          [] model.class = "ARIMA"         -> ARIMAForecaster_predict(model.obj, steps)
          [] model.class = "VAR"           -> VARForecaster_predict(model.obj, steps)

\* The body shared by forecast_moving_average, forecast_arima and
\* forecast_var: load, model.predict(steps), metrics against the last rows.
\* An exception becomes the {"error": ...} result.
forecast_baseline(files, rows, model_name, steps) ==
    LET data  == ForecastService_load_data(rows)
        model == ForecastService_load_model(files, model_name)
        p     == predict_call(model.val, Call(<<IntArg(steps)>>, None))
        n_actual == Min(steps, rows)        \* data['Close'].tail(steps)
    IN  IF data.err # "" THEN data
        ELSE IF model.err # "" THEN model
        ELSE IF p.err # "" THEN p
        ELSE Ok([predictions |-> p.val,
                 steps       |-> steps,
                 metrics     |-> Len(p.val) = n_actual /\ n_actual > 0])

ForecastService_forecast_moving_average(files, rows, steps) ==
    forecast_baseline(files, rows, "MovingAverage", steps)

ForecastService_forecast_arima(files, rows, steps) ==
    forecast_baseline(files, rows, "ARIMA", steps)

ForecastService_forecast_var(files, rows, steps) ==
    forecast_baseline(files, rows, "VAR", steps)

\* GET /forecast/{symbol}?horizon=&model= for the three baseline models: one
\* {timestamp, value} entry per prediction of the service's result.
EndpointModels == {"moving_average", "arima", "var"}

get_forecast(files, rows, horizon, model) ==
    LET result ==
            CASE model = "arima" -> ForecastService_forecast_arima(files, rows, horizon)
              [] model = "moving_average" ->
                     ForecastService_forecast_moving_average(files, rows, horizon)
              [] model = "var" -> ForecastService_forecast_var(files, rows, horizon)
    IN  IF result.err = ""
        THEN Ok([i \in 1..Len(result.val.predictions) |->
                    [hour |-> i - 1, value |-> result.val.predictions[i]]])
        ELSE Raise("No predictions available")

----------------------------------------------------------------------------
\* EnsembleForecaster (models/ensemble_model.py).  The member models are
\* abstract: what a member's predict answers is an input of each predict
\* call.  self.models is kept as the set of its keys; self.weights is the
\* dict from name to weight.

Names == {"A", "B"}

Weights == {FromInt(-1), FromInt(0), FromInt(1)}

NoModels == "ValueError: No models added to ensemble"

NoValidPredictions == "ValueError: No valid predictions from any model"

KeyMismatch == "ValueError: Weight keys must match model names"

\* sum(f[k] for k in S)
RECURSIVE SumValues(_, _)
SumValues(f, S) ==
    IF S = {} THEN FromInt(0)
    ELSE LET k == CHOOSE k \in S : TRUE
         IN  RAdd(f[k], SumValues(f, S \ {k}))

EnsembleForecaster_new == [models |-> {}, weights |-> <<>>, is_trained |-> FALSE]

EnsembleForecaster_add_model(self, name, weight) ==
    [self EXCEPT !.models  = self.models \cup {name},
                 !.weights = [k \in (DOMAIN self.weights) \cup {name} |->
                                 IF k = name THEN weight ELSE self.weights[k]]]

EnsembleForecaster_set_weights(self, weights) ==
    IF DOMAIN weights # self.models
    THEN [self |-> self, res |-> Raise(KeyMismatch)]
    ELSE [self |-> [self EXCEPT !.weights = weights], res |-> Ok(<<>>)]

EnsembleForecaster_normalize_weights(self) ==
    LET total_weight == SumValues(self.weights, DOMAIN self.weights)
    IN  IF RLt(FromInt(0), total_weight)
        THEN [self EXCEPT !.weights = [k \in DOMAIN self.weights |->
                                          RDiv(self.weights[k], total_weight)]]
        ELSE self

\* What one member answers in a predict call: to model.predict(data, steps)
\* and, should that raise TypeError, to model.predict(steps=steps).
member_predict(o) == IF o.pos.err = "TypeError" THEN o.kw ELSE o.pos

\* The members that end up in the predictions dict.
Predicted(self, outcomes) ==
    {n \in self.models : member_predict(outcomes[n]).err = ""}

\* Mutant: a short prediction is padded with zeros.
FitToSteps_zero_padded(pred, steps) ==
    [i \in 1..steps |-> IF i <= Len(pred) THEN pred[i] ELSE FromInt(0)]

\* pred[:steps] when long enough, else np.pad(pred, (0, steps - len), 'edge')
FitToSteps(pred, steps) ==
    IF Len(pred) >= steps THEN [i \in 1..steps |-> pred[i]]
    ELSE [i \in 1..steps |-> pred[Min(i, Len(pred))]]

weights_get(self, name) ==
    IF name \in DOMAIN self.weights THEN self.weights[name] ELSE FromInt(1)

\* ensemble_pred before the division: sum of weight * fitted prediction.
WeightedSum(self, steps, outcomes, members) ==
    [i \in 1..steps |->
        SumValues([n \in members |->
                      RMul(weights_get(self, n),
                           FitToSteps(member_predict(outcomes[n]).val, steps)[i])],
                  members)]

\* Mutant: divides by the sum of all configured weights.
EnsembleForecaster_predict_configured_total(self, steps, outcomes) ==
    LET predictions == Predicted(self, outcomes)
        total_weight == SumValues(self.weights, DOMAIN self.weights)
        ensemble_pred == WeightedSum(self, steps, outcomes, predictions)
    IN  IF self.models = {} THEN Raise(NoModels)
        ELSE IF predictions = {} THEN Raise(NoValidPredictions)
        ELSE Ok(IF RLt(FromInt(0), total_weight)
                THEN [i \in 1..steps |-> RDiv(ensemble_pred[i], total_weight)]
                ELSE ensemble_pred)

\* Mutant: one failing member aborts the ensemble.
EnsembleForecaster_predict_strict(self, steps, outcomes) ==
    LET predictions == Predicted(self, outcomes)
        total_weight == SumValues([n \in predictions |-> weights_get(self, n)], predictions)
        ensemble_pred == WeightedSum(self, steps, outcomes, predictions)
    IN  IF self.models = {} THEN Raise(NoModels)
        ELSE IF predictions # self.models THEN Raise(NoValidPredictions)
        ELSE Ok(IF RLt(FromInt(0), total_weight)
                THEN [i \in 1..steps |-> RDiv(ensemble_pred[i], total_weight)]
                ELSE ensemble_pred)

EnsembleForecaster_predict(self, steps, outcomes) ==
    LET predictions == Predicted(self, outcomes)
        total_weight == SumValues([n \in predictions |-> weights_get(self, n)], predictions)
        ensemble_pred == WeightedSum(self, steps, outcomes, predictions)
    IN  IF self.models = {} THEN Raise(NoModels)
        ELSE IF predictions = {} THEN Raise(NoValidPredictions)
        ELSE IF \E n \in predictions :
                    Len(member_predict(outcomes[n]).val) = 0 /\ steps > 0
        THEN Raise("ValueError: can't extend empty axis using modes other than 'constant'")
        ELSE Ok(IF RLt(FromInt(0), total_weight)
                THEN [i \in 1..steps |-> RDiv(ensemble_pred[i], total_weight)]
                ELSE ensemble_pred)

\* scipy.optimize.minimize(objective, initial_weights, method='SLSQP',
\* bounds=[(0, 1)] * k): result.x is some point of the box [0, 1]^k over the
\* members that predicted.  Which point depends on the solver's iteration;
\* every point with a positive sum is taken as possible.
SolverCoordinates == {FromInt(0), Rat(1, 2), FromInt(1)}

minimize_results(members) ==
    {x \in [members -> SolverCoordinates] : RLt(FromInt(0), SumValues(x, members))}

\* optimize_weights given the members' answers on the validation frame and
\* the solver's result.x: only the members that predicted get a new weight.
EnsembleForecaster_optimize_weights(self, outcomes, x) ==
    LET model_predictions == Predicted(self, outcomes)
        total == SumValues(x, model_predictions)
        weights == [k \in (DOMAIN self.weights) \cup model_predictions |->
                       IF k \in model_predictions THEN RDiv(x[k], total)
                       ELSE self.weights[k]]
    IN  IF self.models = {} THEN [self |-> self, res |-> Raise(NoModels)]
        ELSE IF model_predictions = {}
        THEN [self |-> self, res |-> Raise(NoValidPredictions)]
        ELSE [self |-> [self EXCEPT !.weights = weights], res |-> Ok(weights)]

----------------------------------------------------------------------------
\* ModelEvaluator of services/model_evaluator.py: rankings over the
\* model_performance collection.  A record is
\* [model_name, symbol, timestamp, metrics |-> [rmse, mae, mape]].

Metrics == <<"rmse", "mae", "mape">>

\* Model names of the records, in the order groupby sorts its keys.
PerfModels == <<"arima", "lstm">>

Symbols == {"AAPL", "BTC-USD"}

\* symbol=None
NoSymbol == ""

\* db.model_performance.find(query).sort('timestamp', -1)
RECURSIVE sort_timestamp_desc(_)
sort_timestamp_desc(records) ==
    IF records = {} THEN <<>>
    ELSE LET r == CHOOSE r \in records : \A q \in records : q.timestamp <= r.timestamp
         IN  <<r>> \o sort_timestamp_desc(records \ {r})

ModelEvaluator_get_all_performance_data(records, symbol) ==
    sort_timestamp_desc({r \in records : symbol = NoSymbol \/ r.symbol = symbol})

RowsOf(data, name) == {i \in 1..Len(data) : data[i].model_name = name}

RECURSIVE PresentKeys(_, _)
PresentKeys(data, keys) ==
    IF keys = <<>> THEN <<>>
    ELSE IF RowsOf(data, Head(keys)) # {}
         THEN <<Head(keys)>> \o PresentKeys(data, Tail(keys))
         ELSE PresentKeys(data, Tail(keys))

\* Mutant: the last row of each group.
groupby_model_name_last(data) ==
    LET keys == PresentKeys(data, PerfModels)
    IN  [k \in 1..Len(keys) |->
            data[CHOOSE i \in RowsOf(data, keys[k]) : \A j \in RowsOf(data, keys[k]) : j <= i]]

\* data.groupby('model_name').first().reset_index(): one row per model name,
\* in key order, holding the first row of the group.
groupby_model_name_first(data) ==
    LET keys == PresentKeys(data, PerfModels)
    IN  [k \in 1..Len(keys) |->
            data[CHOOSE i \in RowsOf(data, keys[k]) : \A j \in RowsOf(data, keys[k]) : i <= j]]

RemoveAt(rows, i) == [k \in 1..(Len(rows) - 1) |-> IF k < i THEN rows[k] ELSE rows[k + 1]]

\* sort_values(<metric>_value, ascending=True) on rows [model_name, value]:
\* equal values keep their order.
RECURSIVE sort_values(_)
sort_values(rows) ==
    IF rows = <<>> THEN <<>>
    ELSE LET i == CHOOSE i \in 1..Len(rows) :
                     /\ \A j \in 1..Len(rows) : RLe(rows[i].value, rows[j].value)
                     /\ \A j \in 1..(i - 1) : ~RLe(rows[j].value, rows[i].value)
         IN  <<rows[i]>> \o sort_values(RemoveAt(rows, i))

ModelEvaluator_calculate_model_rankings(records, symbol) ==
    LET data == ModelEvaluator_get_all_performance_data(records, symbol)
        latest_data == groupby_model_name_first(data)
        ranking(metric) ==
            LET sorted_data == sort_values([k \in 1..Len(latest_data) |->
                                   [model_name |-> latest_data[k].model_name,
                                    value |-> latest_data[k].metrics[metric]]])
            IN  [best   |-> sorted_data[1].model_name,
                 worst  |-> sorted_data[Len(sorted_data)].model_name,
                 scores |-> [n \in {sorted_data[k].model_name : k \in 1..Len(sorted_data)} |->
                               sorted_data[CHOOSE k \in 1..Len(sorted_data) :
                                              sorted_data[k].model_name = n].value]]
    IN  IF data = <<>> THEN Raise("No performance data available")
        ELSE Ok([metric \in {Metrics[m] : m \in 1..Len(Metrics)} |-> ranking(metric)])

----------------------------------------------------------------------------
\* Initial state: every object freshly constructed, nothing stored.

NoOut == [op |-> "none", kind |-> "", steps |-> 0, arg |-> <<>>, res |-> Ok(<<>>)]

Init ==
    /\ ma = MovingAverageForecaster_new(DefaultWindowSize)
    /\ arima = ARIMAForecaster_new
    /\ var = VARForecaster_new
    /\ lstm = LSTMForecaster_new
    /\ gru = GRUForecaster_new
    /\ out = NoOut
    /\ trainer = ModelTrainer_new
    /\ registry = [f \in Files |-> None]
    /\ db_rows = 0
    /\ svc_out = NoOut
    /\ ens = EnsembleForecaster_new
    /\ ens_out = NoOut
    /\ perf = {}
    /\ results = <<>>
    /\ eval_out = NoOut
    /\ sched = <<>>
    /\ sched_out = NoOut
    /\ scheduler = [running |-> FALSE, stopping |-> FALSE, jobs |-> {}, executing |-> {}]

----------------------------------------------------------------------------
\* Operations on the moving-average forecaster.

MA_Construct(w) ==
    /\ ma' = MovingAverageForecaster_new(w)
    /\ out' = [op |-> "new", kind |-> "ma", steps |-> 0, arg |-> <<>>, res |-> Ok(<<>>)]
    /\ UNCHANGED <<arima, var, lstm, gru, svcVars, ensVars, evalVars, schedVars>>

MA_Train(close) ==
    /\ ma' = MovingAverageForecaster_train(ma, close)
    /\ out' = [op |-> "train", kind |-> "ma", steps |-> 0, arg |-> <<>>, res |-> Ok(<<>>)]
    /\ UNCHANGED <<arima, var, lstm, gru, svcVars, ensVars, evalVars, schedVars>>

MA_Predict(steps) ==
    /\ out' = [op |-> "predict", kind |-> "ma", steps |-> steps, arg |-> <<>>,
               res |-> MovingAverageForecaster_predict(ma, steps)]
    /\ UNCHANGED <<ma, arima, var, lstm, gru, svcVars, ensVars, evalVars, schedVars>>

MA_PredictWithTrend(steps) ==
    /\ out' = [op |-> "predict_with_trend", kind |-> "ma", steps |-> steps, arg |-> <<>>,
               res |-> MovingAverageForecaster_predict_with_trend(ma, steps)]
    /\ UNCHANGED <<ma, arima, var, lstm, gru, svcVars, ensVars, evalVars, schedVars>>

MA_Evaluate(test_close, use_trend) ==
    /\ out' = [op |-> "evaluate", kind |-> "ma", steps |-> Len(test_close),
               arg |-> test_close,
               res |-> MovingAverageForecaster_evaluate(ma, test_close, use_trend)]
    /\ UNCHANGED <<ma, arima, var, lstm, gru, svcVars, ensVars, evalVars, schedVars>>

NextMA ==
    \/ \E w \in 1..MaxWindow : MA_Construct(w)
    \/ \E close \in TrainFrames : MA_Train(close)
    \/ \E steps \in 0..MaxSteps : MA_Predict(steps)
    \/ \E steps \in 0..MaxSteps : MA_PredictWithTrend(steps)
    \/ \E test \in TestFrames, use_trend \in BOOLEAN : MA_Evaluate(test, use_trend)

SpecMA == Init /\ [][NextMA]_vars

----------------------------------------------------------------------------
\* Operations on the other forecasters.  predict is called with steps=h (and,
\* for the sequence-learning kinds, with a frame of the given number of rows).

FcOut(op, kind, steps, rows, res) ==
    [op |-> op, kind |-> kind, steps |-> steps, arg |-> rows, res |-> res]

ARIMA_Train(rows, fit_ok) ==
    LET t == ARIMAForecaster_train(arima, rows, fit_ok)
    IN  /\ arima' = t.self
        /\ out' = FcOut("train", "arima", 0, rows, t.res)
        /\ UNCHANGED <<ma, var, lstm, gru, svcVars, ensVars, evalVars, schedVars>>

ARIMA_Predict(steps) ==
    /\ out' = FcOut("predict", "arima", steps, 0, ARIMAForecaster_predict(arima, steps))
    /\ UNCHANGED <<ma, arima, var, lstm, gru, svcVars, ensVars, evalVars, schedVars>>

VAR_Train(rows, fit_ok) ==
    LET t == VARForecaster_train(var, rows, fit_ok)
    IN  /\ var' = t.self
        /\ out' = FcOut("train", "var", 0, rows, t.res)
        /\ UNCHANGED <<ma, arima, lstm, gru, svcVars, ensVars, evalVars, schedVars>>

VAR_Predict(steps) ==
    /\ out' = FcOut("predict", "var", steps, 0, VARForecaster_predict(var, steps))
    /\ UNCHANGED <<ma, arima, var, lstm, gru, svcVars, ensVars, evalVars, schedVars>>

LSTM_Train(rows, fit_ok) ==
    LET t == LSTMForecaster_train(lstm, rows, fit_ok)
    IN  /\ lstm' = t.self
        /\ out' = FcOut("train", "lstm", 0, rows, t.res)
        /\ UNCHANGED <<ma, arima, var, gru, svcVars, ensVars, evalVars, schedVars>>

LSTM_Predict(rows, steps) ==
    /\ out' = FcOut("predict", "lstm", steps, rows, LSTMForecaster_predict(lstm, rows, steps))
    /\ lstm' = after_predict(lstm, rows)
    /\ UNCHANGED <<ma, arima, var, gru, svcVars, ensVars, evalVars, schedVars>>

GRU_Train(rows, fit_ok) ==
    LET t == GRUForecaster_train(gru, rows, fit_ok)
    IN  /\ gru' = t.self
        /\ out' = FcOut("train", "gru", 0, rows, t.res)
        /\ UNCHANGED <<ma, arima, var, lstm, svcVars, ensVars, evalVars, schedVars>>

GRU_Predict(rows, steps) ==
    /\ out' = FcOut("predict", "gru", steps, rows, GRUForecaster_predict(gru, rows, steps))
    /\ gru' = after_predict(gru, rows)
    /\ UNCHANGED <<ma, arima, var, lstm, svcVars, ensVars, evalVars, schedVars>>

\* Training frames of the moving average in the five-forecaster specification.
ShortFrames == SeqsUpTo(Cells, 1)

NextForecaster ==
    \/ \E close \in ShortFrames : MA_Train(close)
    \/ \E steps \in 0..MaxSteps : MA_Predict(steps)
    \/ \E rows \in FrameRows, fit_ok \in BOOLEAN : ARIMA_Train(rows, fit_ok)
    \/ \E steps \in 0..MaxSteps : ARIMA_Predict(steps)
    \/ \E rows \in FrameRows, fit_ok \in BOOLEAN : VAR_Train(rows, fit_ok)
    \/ \E steps \in 0..MaxSteps : VAR_Predict(steps)
    \/ \E rows \in FrameRows, fit_ok \in BOOLEAN : LSTM_Train(rows, fit_ok)
    \/ \E rows \in FrameRows, steps \in 0..MaxSteps : LSTM_Predict(rows, steps)
    \/ \E rows \in FrameRows, fit_ok \in BOOLEAN : GRU_Train(rows, fit_ok)
    \/ \E rows \in FrameRows, steps \in 0..MaxSteps : GRU_Predict(rows, steps)

SpecForecaster == Init /\ [][NextForecaster]_vars

----------------------------------------------------------------------------
\* Operations of the trainer, the store and the forecast endpoints.

SvcOut(op, kind, steps, res) ==
    [op |-> op, kind |-> kind, steps |-> steps, arg |-> <<>>, res |-> res]

TrainBaselineModels(train_data, arima_ok, var_ok) ==
    /\ trainer' = ModelTrainer_train_baseline_models(trainer, train_data, arima_ok, var_ok)
    /\ svc_out' = SvcOut("train_baseline_models", "", 0, Ok(<<>>))
    /\ UNCHANGED <<fcVars, registry, db_rows, ensVars, evalVars, schedVars>>

SaveModels ==
    /\ registry' = ModelTrainer_save_models(trainer, registry)
    /\ svc_out' = SvcOut("save_models", "", 0, Ok(<<>>))
    /\ UNCHANGED <<fcVars, trainer, db_rows, ensVars, evalVars, schedVars>>

\* fetch_and_store appends the fetched rows to historical_data.
FetchAndStore(n) ==
    /\ db_rows + n <= MaxRows
    /\ db_rows' = db_rows + n
    /\ svc_out' = SvcOut("fetch_and_store", "", 0, Ok(<<>>))
    /\ UNCHANGED <<fcVars, trainer, registry, ensVars, evalVars, schedVars>>

\* GET /forecast/moving-average|arima|var/{symbol}?steps=
ForecastEndpoint(model, steps) ==
    /\ svc_out' = SvcOut("forecast", model, steps,
          CASE model = "moving_average" ->
                 ForecastService_forecast_moving_average(registry, db_rows, steps)
            [] model = "arima" -> ForecastService_forecast_arima(registry, db_rows, steps)
            [] model = "var" -> ForecastService_forecast_var(registry, db_rows, steps))
    /\ UNCHANGED <<fcVars, trainer, registry, db_rows, ensVars, evalVars, schedVars>>

\* GET /forecast/{symbol}?horizon=&model=
GetForecast(model, horizon) ==
    /\ svc_out' = SvcOut("get_forecast", model, horizon,
                         get_forecast(registry, db_rows, horizon, model))
    /\ UNCHANGED <<fcVars, trainer, registry, db_rows, ensVars, evalVars, schedVars>>

\* Frames the trainer is given: one row short of the VAR minimum, and at it.
TrainerFrames ==
    {FlatFrame(rows, price) : rows \in {MinVarRows - 1, MinVarRows}, price \in Prices}

ServiceSteps == (1..MaxSteps) \cup {DefaultSteps}

NextService ==
    \/ \E f \in TrainerFrames, arima_ok \in BOOLEAN, var_ok \in BOOLEAN :
            TrainBaselineModels(f, arima_ok, var_ok)
    \/ SaveModels
    \/ \E n \in 1..MaxRows : FetchAndStore(n)
    \/ \E m \in EndpointModels, steps \in ServiceSteps : ForecastEndpoint(m, steps)
    \/ \E m \in EndpointModels, horizon \in ServiceSteps : GetForecast(m, horizon)

SpecService == Init /\ [][NextService]_vars

----------------------------------------------------------------------------
\* Operations on the ensemble.

EnsOut(op, steps, arg, res) ==
    [op |-> op, kind |-> "", steps |-> steps, arg |-> arg, res |-> res]

Ens_Construct ==
    /\ ens' = EnsembleForecaster_new
    /\ ens_out' = EnsOut("__init__", 0, <<>>, Ok(<<>>))
    /\ UNCHANGED <<fcVars, svcVars, evalVars, schedVars>>

Ens_AddModel(name, weight) ==
    /\ ens' = EnsembleForecaster_add_model(ens, name, weight)
    /\ ens_out' = EnsOut("add_model", 0, <<>>, Ok(<<>>))
    /\ UNCHANGED <<fcVars, svcVars, evalVars, schedVars>>

\* ens_out.arg is the key set of the weights passed.
Ens_SetWeights(weights) ==
    LET r == EnsembleForecaster_set_weights(ens, weights)
    IN  /\ ens' = r.self
        /\ ens_out' = EnsOut("set_weights", 0, DOMAIN weights, r.res)
        /\ UNCHANGED <<fcVars, svcVars, evalVars, schedVars>>

\* Weights are kept to denominators up to MaxDen.
Ens_NormalizeWeights ==
    LET r == EnsembleForecaster_normalize_weights(ens)
    IN  /\ \A k \in DOMAIN r.weights : r.weights[k][2] <= MaxDen
        /\ ens' = r
        /\ ens_out' = EnsOut("normalize_weights", 0, <<>>, Ok(<<>>))
        /\ UNCHANGED <<fcVars, svcVars, evalVars, schedVars>>

Ens_Predict(steps, outcomes) ==
    /\ ens_out' = EnsOut("predict", steps, outcomes,
                         EnsembleForecaster_predict(ens, steps, outcomes))
    /\ UNCHANGED <<fcVars, svcVars, ens, evalVars, schedVars>>

\* A member's prediction: n values rising from base.
Ramp(base, n) == [i \in 1..n |-> FromInt(base * i)]

\* The level each member's predictions start from.
MemberBase(name) == IF name = "A" THEN 10 ELSE 20

\* What member `name` can answer when asked for `steps` values: a prediction
\* shorter or longer than asked; an error; or TypeError to the positional
\* call and then either the prediction or TypeError again to the keyword call.
MemberOutcomes(name, steps) ==
    LET b == MemberBase(name)
    IN  {[pos |-> Ok(Ramp(b, n)), kw |-> Ok(Ramp(b, n))] : n \in {1, MaxSteps}}
        \cup {[pos |-> Raise("ValueError"), kw |-> Raise("ValueError")],
              [pos |-> Raise("TypeError"), kw |-> Raise("TypeError")],
              [pos |-> Raise("TypeError"), kw |-> Ok(Ramp(b, steps))]}

\* One outcome per member of the ensemble.
CallOutcomes(members, steps) ==
    {o \in [members -> UNION {MemberOutcomes(n, steps) : n \in members}] :
        \A n \in members : o[n] \in MemberOutcomes(n, steps)}

NextEnsemble ==
    \/ Ens_Construct
    \/ \E name \in Names, weight \in Weights : Ens_AddModel(name, weight)
    \/ \E S \in SUBSET Names : \E weights \in [S -> Weights] : Ens_SetWeights(weights)
    \/ Ens_NormalizeWeights
    \/ \E steps \in 1..MaxSteps :
         \E outcomes \in CallOutcomes(ens.models, steps) :
            Ens_Predict(steps, outcomes)

SpecEnsemble == Init /\ [][NextEnsemble]_vars

----------------------------------------------------------------------------
\* Configuring an ensemble and optimizing its weights.

\* The call records which members predicted on the validation frame.
Ens_OptimizeWeights(steps, outcomes, x) ==
    LET r == EnsembleForecaster_optimize_weights(ens, outcomes, x)
    IN  /\ \A k \in DOMAIN r.self.weights : r.self.weights[k][2] <= MaxDen
        /\ ens' = r.self
        /\ ens_out' = EnsOut("optimize_weights", steps, Predicted(ens, outcomes), r.res)
        /\ UNCHANGED <<fcVars, svcVars, evalVars, schedVars>>

NextWeights ==
    \/ Ens_Construct
    \/ \E name \in Names, weight \in Weights : Ens_AddModel(name, weight)
    \/ \E S \in SUBSET Names : \E weights \in [S -> Weights] : Ens_SetWeights(weights)
    \/ Ens_NormalizeWeights
    \/ \E steps \in 1..MaxSteps :
         \E outcomes \in CallOutcomes(ens.models, steps) :
            \E x \in minimize_results(Predicted(ens, outcomes)) :
                Ens_OptimizeWeights(steps, outcomes, x)

SpecWeights == Init /\ [][NextWeights]_vars

----------------------------------------------------------------------------
\* Persisting trained forecasters and loading them back.

\* model.predict for a forecaster of any class: the three classical kinds
\* take steps alone, the sequence-learning kinds the frame and steps.
Forecaster_predict(model, rows, steps) ==
    CASE model.class = "MovingAverage" -> MovingAverageForecaster_predict(model.obj, steps)
      [] model.class = "ARIMA" -> ARIMAForecaster_predict(model.obj, steps)
      [] model.class = "VAR"   -> VARForecaster_predict(model.obj, steps)
      [] model.class = "LSTM"  -> LSTMForecaster_predict(model.obj, rows, steps)
      [] model.class = "GRU"   -> GRUForecaster_predict(model.obj, rows, steps)

\* The sequence length the repository's tests construct LSTM and GRU with.
TestSequenceLength == 30

SequenceLengths == {DefaultSequenceLength, TestSequenceLength}

\* Trained forecasters of every kind, with default and other hyperparameters.
TrainedForecasters ==
    {[class |-> "MovingAverage",
      obj |-> MovingAverageForecaster_train(MovingAverageForecaster_new(w),
                                            <<FromInt(10), FromInt(20)>>)] :
        w \in {1, DefaultWindowSize}}
    \cup {[class |-> "ARIMA", obj |-> ARIMAForecaster_train(ARIMAForecaster_new, MinVarRows, TRUE).self],
          [class |-> "VAR", obj |-> VARForecaster_train(VARForecaster_new, MinVarRows, TRUE).self]}
    \cup {[class |-> "LSTM",
           obj |-> LSTMForecaster_train(LSTMForecaster_init(n), n + MinSequences, TRUE).self] :
             n \in SequenceLengths}
    \cup {[class |-> "GRU",
           obj |-> GRUForecaster_train(GRUForecaster_init(n), n + MinSequences, TRUE).self] :
             n \in SequenceLengths}

\* trainer = ModelTrainer(symbol); trainer.models[name] = model
TrainerWithModel(model) ==
    /\ trainer' = [ModelTrainer_new EXCEPT !.models[model.class] = Some(model)]
    /\ svc_out' = SvcOut("ModelTrainer", model.class, 0, Ok(<<>>))
    /\ UNCHANGED <<fcVars, registry, db_rows, ensVars, evalVars, schedVars>>

TrainNeuralModels(rows, lstm_ok, gru_ok) ==
    /\ trainer' = ModelTrainer_train_neural_models(trainer, rows, lstm_ok, gru_ok)
    /\ svc_out' = SvcOut("train_neural_models", "", 0, Ok(<<>>))
    /\ UNCHANGED <<fcVars, registry, db_rows, ensVars, evalVars, schedVars>>

LoadModel(model_name) ==
    /\ svc_out' = SvcOut("load_model", model_name, 0,
                         ForecastService_load_model(registry, model_name))
    /\ UNCHANGED <<fcVars, trainer, registry, db_rows, ensVars, evalVars, schedVars>>

NextPersist ==
    \/ \E model \in TrainedForecasters : TrainerWithModel(model)
    \/ \E rows \in {MinNeuralRows - 1, MinNeuralRows}, lstm_ok \in BOOLEAN, gru_ok \in BOOLEAN :
            TrainNeuralModels(rows, lstm_ok, gru_ok)
    \/ SaveModels
    \/ \E model_name \in TrainerNames : LoadModel(model_name)

SpecPersist == Init /\ [][NextPersist]_vars

----------------------------------------------------------------------------
\* Writing performance records and ranking the models.

EvalOut(op, arg, res) ==
    [op |-> op, kind |-> "", steps |-> 0, arg |-> arg, res |-> res]

\* Metric values a record is stored with.
MetricChoices ==
    {[rmse |-> FromInt(1), mae |-> FromInt(2), mape |-> Inf(1)],
     [rmse |-> FromInt(2), mae |-> FromInt(1), mape |-> FromInt(1)]}

\* db.model_performance.insert_one(record), timestamp = datetime.now(): each
\* record is later than the ones before it.
InsertPerformanceRecord(model_name, symbol, metrics) ==
    /\ Cardinality(perf) < MaxRecords
    /\ perf' = perf \cup {[model_name |-> model_name, symbol |-> symbol,
                           timestamp |-> Cardinality(perf) + 1, metrics |-> metrics]}
    /\ eval_out' = EvalOut("insert_one", <<>>, Ok(<<>>))
    /\ UNCHANGED <<fcVars, svcVars, ensVars, results, schedVars>>

CalculateModelRankings(symbol) ==
    /\ eval_out' = EvalOut("calculate_model_rankings", symbol,
                           ModelEvaluator_calculate_model_rankings(perf, symbol))
    /\ UNCHANGED <<fcVars, svcVars, ensVars, perf, results, schedVars>>

NextRankings ==
    \/ \E k \in 1..Len(PerfModels), symbol \in Symbols, metrics \in MetricChoices :
            InsertPerformanceRecord(PerfModels[k], symbol, metrics)
    \/ \E symbol \in Symbols \cup {NoSymbol} : CalculateModelRankings(symbol)

SpecRankings == Init /\ [][NextRankings]_vars

----------------------------------------------------------------------------
\* The scheduler service (services/scheduler_service.py).

SchedulerSymbols == <<"BTC-USD", "AAPL", "EURUSD=X", "TSLA", "GOOGL">>

\* The jobs whose body loops over the symbols, and all four job bodies in the
\* order trigger_manual_update tests for them.
LoopJobs == {"daily_data_update", "hourly_forecast_refresh", "weekly_model_retrain"}
JobBodies == <<"daily_data_update", "hourly_forecast_refresh", "sentiment_update",
               "weekly_model_retrain">>

\* One line of the scheduler's log: a job body starting or completing
\* (symbol ""), or what became of one symbol in a job's loop.
LogLine(job, symbol, what) == [job |-> job, symbol |-> symbol, what |-> what]

\* A run of a job body or of the trigger: the lines logged and the exception
\* that left it ("" when it returned).
Run(log, err) == [log |-> log, err |-> err]

\* What the data service's calls do for one symbol (or for the sentiment
\* feed): deliver data, deliver nothing, or raise.
DataResults == {"data", "empty", "raise"}

\* forecast_ensemble(symbol, horizon=24) against the signature
\* forecast_ensemble(self, symbol, steps=24): the call raises TypeError.
ForecastService_forecast_ensemble_horizon(symbol) ==
    Raise("TypeError: unexpected keyword argument 'horizon'")

\* retrain_models wraps its whole body in try/except and returns a dict in
\* both cases.
ForecastService_retrain_models(symbol) == Ok("dict")

\* What the statements inside one symbol's try block come to.
symbol_attempt(job, symbol, data_results) ==
    CASE job = "daily_data_update" ->
            IF data_results[symbol] = "raise" THEN "raise"
            ELSE IF data_results[symbol] = "data" THEN "updated" ELSE "no data"
      [] job = "hourly_forecast_refresh" ->
            IF ForecastService_forecast_ensemble_horizon(symbol).err # "" THEN "raise"
            ELSE "refreshed"
      [] job = "weekly_model_retrain" ->
            IF ForecastService_retrain_models(symbol).err # "" THEN "raise"
            ELSE "retrained"

\* The same loop with the try/except around the whole loop: the first failing
\* symbol ends it.
RECURSIVE symbol_loop_unguarded(_, _, _)
symbol_loop_unguarded(job, symbols, data_results) ==
    IF symbols = <<>> THEN Run(<<>>, "")
    ELSE LET what == symbol_attempt(job, Head(symbols), data_results)
             rest == symbol_loop_unguarded(job, Tail(symbols), data_results)
         IN  IF what = "raise"
             THEN Run(<<LogLine(job, Head(symbols), "error")>>, "")
             ELSE Run(<<LogLine(job, Head(symbols), what)>> \o rest.log, rest.err)

\* for symbol in self.symbols: try: ... except Exception as e: logger.error(...)
RECURSIVE symbol_loop(_, _, _)
symbol_loop(job, symbols, data_results) ==
    IF symbols = <<>> THEN Run(<<>>, "")
    ELSE LET what == symbol_attempt(job, Head(symbols), data_results)
             rest == symbol_loop(job, Tail(symbols), data_results)
         IN  Run(<<LogLine(job, Head(symbols), IF what = "raise" THEN "error" ELSE what)>>
                    \o rest.log, rest.err)

\* A job body: the starting line, its statements, and the completed line when
\* no exception left them.
job_body(job, inner) ==
    Run(<<LogLine(job, "", "start")>> \o inner.log
            \o (IF inner.err = "" THEN <<LogLine(job, "", "completed")>> ELSE <<>>),
        inner.err)

SchedulerService_daily_data_update(data_results) ==
    job_body("daily_data_update",
             symbol_loop("daily_data_update", SchedulerSymbols, data_results))

SchedulerService_hourly_forecast_refresh ==
    job_body("hourly_forecast_refresh",
             symbol_loop("hourly_forecast_refresh", SchedulerSymbols, <<>>))

SchedulerService_weekly_model_retrain ==
    job_body("weekly_model_retrain",
             symbol_loop("weekly_model_retrain", SchedulerSymbols, <<>>))

\* One try block around the fetch and the store; no symbols.
SchedulerService_sentiment_update(sentiment_result) ==
    job_body("sentiment_update",
             Run(<<LogLine("sentiment_update", "",
                           CASE sentiment_result = "raise" -> "error"
                             [] sentiment_result = "data" -> "updated"
                             [] OTHER -> "no data")>>, ""))

\* The run of job body number k of JobBodies.
run_job(k, data_results, sentiment_result) ==
    CASE k = 1 -> SchedulerService_daily_data_update(data_results)
      [] k = 2 -> SchedulerService_hourly_forecast_refresh
      [] k = 3 -> SchedulerService_sentiment_update(sentiment_result)
      [] k = 4 -> SchedulerService_weekly_model_retrain

\* The job bodies selected[k..4] one after the other; an exception leaving
\* one of them leaves the caller too.
RECURSIVE run_selected(_, _, _, _)
run_selected(k, selected, data_results, sentiment_result) ==
    IF k > Len(JobBodies) THEN Run(<<>>, "")
    ELSE IF ~selected[k]
    THEN run_selected(k + 1, selected, data_results, sentiment_result)
    ELSE LET r == run_job(k, data_results, sentiment_result)
         IN  IF r.err # "" THEN r
             ELSE LET rest == run_selected(k + 1, selected, data_results, sentiment_result)
                  IN  Run(r.log \o rest.log, rest.err)

\* The tests written as one if/elif chain: "all" takes the first branch only.
SchedulerService_trigger_manual_update_elif(update_type, data_results, sentiment_result) ==
    run_selected(1,
        [k \in 1..4 |->
            CASE k = 1 -> update_type \in {"all", "data"}
              [] k = 2 -> update_type = "forecast"
              [] k = 3 -> update_type = "sentiment"
              [] k = 4 -> update_type = "models"],
        data_results, sentiment_result)

\* Four independent tests `if update_type in ["all", X]`, each calling its
\* job body.
SchedulerService_trigger_manual_update(update_type, data_results, sentiment_result) ==
    run_selected(1,
        [k \in 1..4 |->
            CASE k = 1 -> update_type \in {"all", "data"}
              [] k = 2 -> update_type \in {"all", "forecast"}
              [] k = 3 -> update_type \in {"all", "sentiment"}
              [] k = 4 -> update_type \in {"all", "models"}],
        data_results, sentiment_result)

\* The path parameter of POST /scheduler/trigger/{update_type}: the five
\* categories and strings that are none of them.
UpdateTypes == {"all", "data", "forecast", "sentiment", "models", "Data", "everything"}

SchedOut(op, arg, run) ==
    [op |-> op, kind |-> "", steps |-> 0, arg |-> arg,
     res |-> IF run.err = "" THEN Ok(<<>>) ELSE Raise(run.err)]

\* The scheduler fires a job, or the endpoint triggers an update: sched is
\* the log of that call.
Sched_Fire(k, data_results, sentiment_result) ==
    LET run == run_job(k, data_results, sentiment_result)
    IN  /\ sched' = run.log
        /\ sched_out' = SchedOut(JobBodies[k], <<>>, run)
        /\ UNCHANGED <<fcVars, svcVars, ensVars, evalVars, scheduler>>

Sched_TriggerManualUpdate(update_type, data_results, sentiment_result) ==
    LET run == SchedulerService_trigger_manual_update(update_type, data_results,
                                                      sentiment_result)
    IN  /\ sched' = run.log
        /\ sched_out' = SchedOut("trigger_manual_update", update_type, run)
        /\ UNCHANGED <<fcVars, svcVars, ensVars, evalVars, scheduler>>

SymbolSet == {SchedulerSymbols[i] : i \in 1..Len(SchedulerSymbols)}

\* The data results of one call: a set of symbols whose fetch or store
\* raises, the others all delivering data or all delivering nothing.
DataResultMaps ==
    {[s \in SymbolSet |-> IF s \in failing THEN "raise" ELSE delivered] :
        failing \in SUBSET SymbolSet, delivered \in {"data", "empty"}}

\* The inputs a call reads: the data results when the data refresh runs, the
\* sentiment result when the sentiment update runs.
DataInputs(reads) ==
    IF reads THEN DataResultMaps ELSE {[s \in SymbolSet |-> "data"]}

SentimentInputs(reads) == IF reads THEN DataResults ELSE {"data"}

NextScheduler ==
    \/ \E k \in 1..Len(JobBodies) :
          \E data_results \in DataInputs(k = 1),
             sentiment_result \in SentimentInputs(k = 3) :
                Sched_Fire(k, data_results, sentiment_result)
    \/ \E update_type \in UpdateTypes :
          \E data_results \in DataInputs(update_type \in {"all", "data"}),
             sentiment_result \in SentimentInputs(update_type \in {"all", "sentiment"}) :
                Sched_TriggerManualUpdate(update_type, data_results, sentiment_result)

SpecScheduler == Init /\ [][NextScheduler]_vars

----------------------------------------------------------------------------
\* The evaluator of the models package (models/model_evaluator.py).

MaxResults == 1   \* most results kept in the evaluator's list

\* Values of the arrays given to calculate_metrics directly.
MetricValues == {0, 10}

\* actual[:min_length], predictions[:min_length]
truncate(s, n) == SubSeq(s, 1, n)

\* np.mean of an empty array is nan (with a RuntimeWarning), np.sqrt(nan) is
\* nan, a division by zero gives inf or nan; float() keeps all of them.
ModelEvaluator_calculate_metrics(actual, predictions) ==
    LET min_length == Min(Len(actual), Len(predictions))
        a == truncate(actual, min_length)
        p == truncate(predictions, min_length)
    IN  Ok([rmse2 |-> Mean(SquaredErrors(a, p)),
            mae   |-> Mean(AbsErrors(a, p)),
            mape  |-> np_mape(a, p)])

\* evaluate_model: model.predict(test_data, len(test_data)), the metrics, the
\* result record appended to self.results and returned; None on any
\* exception.  Returns the list and the value returned.
ModelEvaluator_evaluate_model(self_results, model, test_close, model_name) ==
    LET predictions == MovingAverageForecaster_predict(model, Len(test_close))
        metrics == ModelEvaluator_calculate_metrics(test_close, predictions.val)
        result == [model_name       |-> model_name,
                   metrics          |-> metrics.val,
                   test_data_length |-> Len(test_close),
                   predictions      |-> predictions.val,
                   actual           |-> test_close]
    IN  IF predictions.err # "" \/ metrics.err # ""
        THEN [results |-> self_results, res |-> Ok(None)]
        ELSE [results |-> Append(self_results, result), res |-> Ok(Some(result))]

\* The models handed to evaluate_model: untrained, and trained on one and on
\* two closes.
EvaluatedModels ==
    {MovingAverageForecaster_new(DefaultWindowSize),
     MovingAverageForecaster_train(MovingAverageForecaster_new(DefaultWindowSize),
                                   <<FromInt(10)>>),
     MovingAverageForecaster_train(MovingAverageForecaster_new(DefaultWindowSize),
                                   <<FromInt(10), FromInt(20)>>)}

\* Test frames: the first n closes of 10, 20, 30, ...
EvaluationFrames == {[i \in 1..n |-> FromInt(10 * i)] : n \in 0..MaxTest}

\* Arrays given to calculate_metrics.
ActualArrays ==
    UNION {[1..n -> {FromInt(v) : v \in MetricValues}] : n \in 0..MaxTest}

PredictionArrays == {[i \in 1..n |-> FromInt(10)] : n \in 0..MaxTest}

Eval_New ==
    /\ results' = <<>>
    /\ eval_out' = EvalOut("ModelEvaluator", <<>>, Ok(<<>>))
    /\ UNCHANGED <<fcVars, svcVars, ensVars, perf, schedVars>>

Eval_CalculateMetrics(actual, predictions) ==
    /\ eval_out' = EvalOut("calculate_metrics", <<actual, predictions>>,
                           ModelEvaluator_calculate_metrics(actual, predictions))
    /\ UNCHANGED <<fcVars, svcVars, ensVars, perf, results, schedVars>>

Eval_EvaluateModel(model, test_close) ==
    LET r == ModelEvaluator_evaluate_model(results, model, test_close, "MovingAverage")
    IN  /\ Len(results) < MaxResults
        /\ results' = r.results
        /\ eval_out' = EvalOut("evaluate_model", <<test_close, model>>, r.res)
        /\ UNCHANGED <<fcVars, svcVars, ensVars, perf, schedVars>>

NextEvaluator ==
    \/ Eval_New
    \/ \E actual \in ActualArrays, predictions \in PredictionArrays :
            Eval_CalculateMetrics(actual, predictions)
    \/ \E model \in EvaluatedModels, test_close \in EvaluationFrames :
            Eval_EvaluateModel(model, test_close)

SpecEvaluator == Init /\ [][NextEvaluator]_vars

----------------------------------------------------------------------------
\* ARIMAForecaster on a price series: what the model is fitted on and what
\* predict returns (models/arima_model.py, train and predict).

\* series.diff().dropna(): the differences of consecutive values.
make_stationary(series) ==
    [i \in 1..(Len(series) - 1) |-> RSub(series[i + 1], series[i])]

\* Values a library forecast takes, in the unit of the series the model was
\* fitted on.
LibraryForecastValues == {FromInt(-1), FromInt(1)}

LibraryForecasts(steps) == [1..steps -> LibraryForecastValues]

\* train: stationary is what check_stationarity returns for the series,
\* fit_ok whether the order search and the fit return.  params['differenced']
\* is assigned before the fit, fitted_model after it.  endog is the series
\* the fitted model holds; train_close is the Close column given to train,
\* which the object does not keep: it is recorded to state what predict
\* should return.
ARIMAForecaster_train_series(self, close, stationary, fit_ok) ==
    LET series == dropna(close)
        fitted_on == IF stationary THEN series ELSE make_stationary(series)
        with_params == [fitted_model |-> self.fitted_model,
                        params |-> [differenced |-> ~stationary],
                        endog |-> IF self.fitted_model THEN self.endog ELSE <<>>,
                        train_close |-> IF self.fitted_model THEN self.train_close ELSE <<>>]
    IN  IF Len(series) = 0 THEN Trained(self, Raise("Exception: statsmodels"))
        ELSE IF Len(fitted_on) = 0 \/ ~fit_ok
        THEN Trained(with_params, Raise("Exception: statsmodels"))
        ELSE Trained([with_params EXCEPT !.fitted_model = TRUE, !.endog = fitted_on,
                                         !.train_close = series],
                     Ok(<<>>))

\* np.cumsum(forecast) + last: the forecast differences accumulated onto the
\* last value.
RECURSIVE accumulate(_, _)
accumulate(last, forecast) ==
    IF forecast = <<>> THEN <<>>
    ELSE <<RAdd(last, Head(forecast))>>
            \o accumulate(RAdd(last, Head(forecast)), Tail(forecast))

\* predict: forecast is what fitted_model.forecast(steps=steps) returns, a
\* forecast of the series the model was fitted on; its values are returned
\* as they are.
ARIMAForecaster_predict_series(self, steps, forecast) ==
    IF ~self.fitted_model THEN Raise(NotTrained)
    ELSE Ok(forecast)

ARIMA_TrainSeries(close, stationary, fit_ok) ==
    LET t == ARIMAForecaster_train_series(arima, close, stationary, fit_ok)
    IN  /\ arima' = t.self
        /\ out' = FcOut("train", "arima", 0, close, t.res)
        /\ UNCHANGED <<ma, var, lstm, gru, svcVars, ensVars, evalVars, schedVars>>

ARIMA_PredictSeries(steps, forecast) ==
    /\ out' = FcOut("predict", "arima", steps, forecast,
                    ARIMAForecaster_predict_series(arima, steps, forecast))
    /\ UNCHANGED <<ma, arima, var, lstm, gru, svcVars, ensVars, evalVars, schedVars>>

NextArima ==
    \/ \E close \in TrainFrames, stationary \in BOOLEAN, fit_ok \in BOOLEAN :
            ARIMA_TrainSeries(close, stationary, fit_ok)
    \/ \E steps \in 0..MaxSteps : \E forecast \in LibraryForecasts(steps) :
            ARIMA_PredictSeries(steps, forecast)

SpecArima == Init /\ [][NextArima]_vars

----------------------------------------------------------------------------
\* The performance score of a record (services/model_evaluator.py,
\* _calculate_performance_score).

\* A metric of a stored record: the key is absent, the value is null (None),
\* or it is a number.
MetricAbsent == [tag |-> "absent", val |-> NaN]
MetricNull == [tag |-> "null", val |-> NaN]
MetricNumber(x) == [tag |-> "number", val |-> x]

\* metrics.get(key, float('inf'))
metrics_get(metric) == IF metric.tag = "absent" THEN MetricNumber(Inf(1)) ELSE metric

\* max(0, x) of Python: x when x > 0, else 0.
py_max0(x) == IF RLt(FromInt(0), x) THEN x ELSE FromInt(0)

\* round(x, 2) for x >= 0: to the nearest multiple of 1/100, a tie to the
\* even one.
round2(x) ==
    LET q == (x[1] * 100) \div x[2]
        r == (x[1] * 100) % x[2]
    IN  IF 2 * r < x[2] THEN Rat(q, 100)
        ELSE IF 2 * r > x[2] THEN Rat(q + 1, 100)
        ELSE IF q % 2 = 0 THEN Rat(q, 100) ELSE Rat(q + 1, 100)

\* max(0, 100 - (value / range) * 100) if value != float('inf') else 0, where
\* arithmetic on None is a TypeError.
normalized_score(metric, range) ==
    IF metric.tag = "null" THEN Raise("TypeError")
    ELSE IF metric.val = Inf(1) THEN Ok(FromInt(0))
    ELSE Ok(py_max0(RSub(FromInt(100),
                         RMul(RDiv(metric.val, FromInt(range)), FromInt(100)))))

\* max(0, 100 - mape) if mape != float('inf') else 0
mape_normalized_score(metric) ==
    IF metric.tag = "null" THEN Raise("TypeError")
    ELSE IF metric.val = Inf(1) THEN Ok(FromInt(0))
    ELSE Ok(py_max0(RSub(FromInt(100), metric.val)))

weighted(rmse_score, mae_score, mape_score) ==
    RAdd(RAdd(RMul(rmse_score, Rat(4, 10)), RMul(mae_score, Rat(3, 10))),
         RMul(mape_score, Rat(3, 10)))

\* _calculate_performance_score: the three normalized scores, their weighted
\* sum rounded to two decimals; 0.0 on any exception.
ModelEvaluator_calculate_performance_score(metrics) ==
    LET rmse_score == normalized_score(metrics_get(metrics.rmse), 10)
        mae_score  == normalized_score(metrics_get(metrics.mae), 5)
        mape_score == mape_normalized_score(metrics_get(metrics.mape))
    IN  IF rmse_score.err # "" \/ mae_score.err # "" \/ mape_score.err # ""
        THEN Ok(FromInt(0))
        ELSE Ok(round2(weighted(rmse_score.val, mae_score.val, mape_score.val)))

\* Metric values of the records scored: absent, null, zero, small, beyond
\* the end of the ranges, infinite.
ScoredMetricValues ==
    {MetricAbsent, MetricNull, MetricNumber(FromInt(0)), MetricNumber(Rat(1, 8)),
     MetricNumber(FromInt(200)), MetricNumber(Inf(1))}

Eval_PerformanceScore(metrics) ==
    /\ eval_out' = EvalOut("_calculate_performance_score", metrics,
                           ModelEvaluator_calculate_performance_score(metrics))
    /\ UNCHANGED <<fcVars, svcVars, ensVars, perf, results, schedVars>>

NextScore ==
    \E rmse \in ScoredMetricValues, mae \in ScoredMetricValues,
       mape \in ScoredMetricValues :
        Eval_PerformanceScore([rmse |-> rmse, mae |-> mae, mape |-> mape])

SpecScore == Init /\ [][NextScore]_vars

----------------------------------------------------------------------------
\* The performance store and the operations that reach it: insert_one
\* (retraining, training script), insert_many (the evaluator's flush) and
\* find (every read: rankings, comparison, summary, report, performance).

\* db_result = result.copy() with the symbol added; insert_many gives every
\* inserted document an id of its own.
db_result(result, symbol, id) ==
    [id |-> id, symbol |-> symbol, model_name |-> result.model_name,
     metrics |-> result.metrics, test_data_length |-> result.test_data_length,
     predictions |-> result.predictions, actual |-> result.actual]

\* The flush as a replacement of the symbol's documents.
ModelEvaluator_save_results_to_db_replacing(self_results, store, symbol) ==
    {d \in store : d.symbol # symbol}
        \cup {db_result(self_results[i], symbol, Cardinality(store) + i) :
                i \in 1..Len(self_results)}

\* save_results_to_db: every result of self.results is copied and inserted;
\* self.results is left as it is.
ModelEvaluator_save_results_to_db(self_results, store, symbol) ==
    store \cup {db_result(self_results[i], symbol, Cardinality(store) + i) :
                    i \in 1..Len(self_results)}

\* db.model_performance.find({'symbol': symbol})
model_performance_find(store, symbol) == {d \in store : d.symbol = symbol}

\* The symbol the trainer flushes for and the reads ask for.
StoreSymbol == "AAPL"

Eval_SaveResultsToDb(symbol) ==
    /\ Cardinality(perf) + Len(results) <= MaxRecords
    /\ perf' = ModelEvaluator_save_results_to_db(results, perf, symbol)
    /\ eval_out' = EvalOut("save_results_to_db", symbol, Ok(<<>>))
    /\ UNCHANGED <<fcVars, svcVars, ensVars, results, schedVars>>

FindPerformance(symbol) ==
    /\ eval_out' = EvalOut("find", symbol, Ok(model_performance_find(perf, symbol)))
    /\ UNCHANGED <<fcVars, svcVars, ensVars, perf, results, schedVars>>

NextStore ==
    \/ \E k \in 1..Len(PerfModels) :
            InsertPerformanceRecord(PerfModels[k], StoreSymbol,
                                    [rmse |-> FromInt(1), mae |-> FromInt(2), mape |-> Inf(1)])
    \/ \E model \in EvaluatedModels, test_close \in EvaluationFrames :
            Eval_EvaluateModel(model, test_close)
    \/ Eval_SaveResultsToDb(StoreSymbol)
    \/ FindPerformance(StoreSymbol)

SpecStore == Init /\ [][NextStore]_vars

----------------------------------------------------------------------------
\* The job lifecycle of the scheduler service (start_scheduler,
\* stop_scheduler, get_scheduler_status) over APScheduler's
\* BackgroundScheduler.  The scheduler object holds its running flag, the
\* ids in its job store and the ids whose body the executor is running;
\* stopping is set while shutdown() waits for the executor.

\* add_job(func, trigger, id=id, replace_existing=True): the job of that id
\* is in the store once, whether or not one was there.
BackgroundScheduler_add_job(s, id) == [s EXCEPT !.jobs = @ \cup {id}]

\* start(): SchedulerAlreadyRunningError unless the scheduler is stopped.
BackgroundScheduler_start(s) ==
    IF s.running
    THEN [s |-> s, err |-> "SchedulerAlreadyRunningError"]
    ELSE [s |-> [s EXCEPT !.running = TRUE], err |-> ""]

\* shutdown(wait=True) sets the state to stopped, then waits for the
\* executor; the memory job store is emptied when it is shut down.
BackgroundScheduler_shutdown(s) ==
    [s EXCEPT !.running = FALSE, !.stopping = TRUE]

BackgroundScheduler_shutdown_return(s) ==
    [s EXCEPT !.stopping = FALSE, !.jobs = {}]

\* The four add_job calls, then start(); an exception is only logged.
SchedulerService_start_scheduler(s) ==
    LET daily     == BackgroundScheduler_add_job(s, "daily_data_update")
        hourly    == BackgroundScheduler_add_job(daily, "hourly_forecast_refresh")
        weekly    == BackgroundScheduler_add_job(hourly, "weekly_model_retrain")
        sentiment == BackgroundScheduler_add_job(weekly, "sentiment_update")
        started   == BackgroundScheduler_start(sentiment)
    IN  [s |-> started.s,
         log |-> IF started.err = "" THEN "started" ELSE "failed to start"]

SchedulerService_stop_scheduler_always_running(s) == s

\* if self.scheduler.running: self.scheduler.shutdown()
SchedulerService_stop_scheduler(s) ==
    IF s.running THEN BackgroundScheduler_shutdown(s) ELSE s

\* The status dict; the job list is modelled by the set of its ids.
SchedulerService_get_scheduler_status(s) ==
    IF ~s.running
    THEN [status |-> "stopped", jobs |-> {}]
    ELSE [status |-> "running", jobs |-> s.jobs,
          total_jobs |-> Cardinality(s.jobs)]

LifecycleOut(op, arg, val) ==
    [op |-> op, kind |-> "", steps |-> 0, arg |-> arg, res |-> Ok(val)]

\* The application's startup and shutdown events call start_scheduler and
\* stop_scheduler one after the other, never while a shutdown is waiting.
Sched_Start ==
    LET r == SchedulerService_start_scheduler(scheduler)
    IN  /\ ~scheduler.stopping
        /\ scheduler' = r.s
        /\ sched_out' = LifecycleOut("start_scheduler", <<>>, [log |-> r.log])
        /\ UNCHANGED <<fcVars, svcVars, ensVars, evalVars, sched>>

Sched_Stop ==
    /\ ~scheduler.stopping
    /\ scheduler' = SchedulerService_stop_scheduler(scheduler)
    /\ sched_out' = LifecycleOut("stop_scheduler", <<>>, [log |-> "called"])
    /\ UNCHANGED <<fcVars, svcVars, ensVars, evalVars, sched>>

\* shutdown() returns once the executor has no job left to run.
Sched_StopReturn ==
    /\ scheduler.stopping
    /\ scheduler.executing = {}
    /\ scheduler' = BackgroundScheduler_shutdown_return(scheduler)
    /\ sched_out' = LifecycleOut("stop_scheduler", <<>>, [log |-> "returned"])
    /\ UNCHANGED <<fcVars, svcVars, ensVars, evalVars, sched>>

Sched_Status ==
    /\ sched_out' = LifecycleOut("get_scheduler_status", <<>>,
                        SchedulerService_get_scheduler_status(scheduler))
    /\ UNCHANGED <<fcVars, svcVars, ensVars, evalVars, sched, scheduler>>

\* A trigger of a stored job comes due while the scheduler runs: the job is
\* submitted to the executor unless an instance of it is still running
\* (max_instances is 1), and stays in the store.
Job_Submit(k) ==
    /\ scheduler.running
    /\ JobBodies[k] \in scheduler.jobs
    /\ JobBodies[k] \notin scheduler.executing
    /\ scheduler' = [scheduler EXCEPT !.executing = @ \cup {JobBodies[k]}]
    /\ sched_out' = LifecycleOut("submit", JobBodies[k], [log |-> "submitted"])
    /\ UNCHANGED <<fcVars, svcVars, ensVars, evalVars, sched>>

\* The executor runs the body of a submitted job to its end.
Job_Run(k, data_results, sentiment_result) ==
    LET run == run_job(k, data_results, sentiment_result)
    IN  /\ JobBodies[k] \in scheduler.executing
        /\ scheduler' = [scheduler EXCEPT !.executing = @ \ {JobBodies[k]}]
        /\ sched' = run.log
        /\ sched_out' = SchedOut(JobBodies[k], <<>>, run)
        /\ UNCHANGED <<fcVars, svcVars, ensVars, evalVars>>

\* The data results of a firing in the lifecycle: every symbol delivers, or
\* every symbol's fetch raises.
LifecycleDataInputs(reads) ==
    IF reads
    THEN {[s \in SymbolSet |-> what] : what \in {"data", "raise"}}
    ELSE {[s \in SymbolSet |-> "data"]}

JobRuns(k) ==
    \E data_results \in LifecycleDataInputs(k = 1),
       sentiment_result \in SentimentInputs(k = 3) :
          Job_Run(k, data_results, sentiment_result)

NextLifecycle ==
    \/ Sched_Start
    \/ Sched_Stop
    \/ Sched_StopReturn
    \/ Sched_Status
    \/ \E k \in 1..Len(JobBodies) : Job_Submit(k)
    \/ \E k \in 1..Len(JobBodies) : JobRuns(k)

\* A job body is a finite loop whose every call is guarded, so a submitted
\* job runs to its end.
SpecLifecycle ==
    /\ Init
    /\ [][NextLifecycle]_vars
    /\ \A k \in 1..Len(JobBodies) : WF_vars(JobRuns(k))

----------------------------------------------------------------------------
\* Retraining (ForecastService.retrain_models).

\* The keys of the models dict, in insertion order.
RetrainKinds == <<"moving_average", "arima", "var", "lstm", "gru">>

\* The methods of ForecastService: __init__, load_data, load_model, the six
\* forecast_* methods, get_model_performance and retrain_models.  There is
\* no save_model.
ForecastServiceMethods ==
    {"__init__", "load_data", "load_model", "forecast_moving_average",
     "forecast_arima", "forecast_var", "forecast_lstm", "forecast_gru",
     "forecast_ensemble", "get_model_performance", "retrain_models"}

NoSaveModel == "AttributeError: 'ForecastService' object has no attribute 'save_model'"

TrainFailed == "ValueError: training failed"

\* One pass of the loop body for a kind: train, save, predict, metrics, the
\* performance record and the 'success' entry; any exception gives the
\* 'failed' entry.  Returns the entry, whether the model was saved and the
\* records inserted.
retrain_kind(symbol, kind, train_ok, at) ==
    IF ~train_ok
    THEN [entry |-> [status |-> "failed", error |-> TrainFailed],
          saved |-> FALSE, inserted |-> {}]
    ELSE IF "save_model" \notin ForecastServiceMethods
    THEN [entry |-> [status |-> "failed", error |-> NoSaveModel],
          saved |-> FALSE, inserted |-> {}]
    ELSE [entry |-> [status |-> "success", error |-> ""],
          saved |-> TRUE,
          inserted |-> {[model_name |-> kind, symbol |-> symbol,
                         timestamp |-> at, retrain_date |-> at]}]

\* retrain_models: load_data raising gives {"error": ...}; otherwise the
\* dict with one entry per kind.  Returns the report, the kinds saved and
\* the records inserted.
ForecastService_retrain_models_report(symbol, has_data, train_ok, at) ==
    IF ~has_data
    THEN [report |-> [error |-> "Failed to retrain models"],
          saved |-> {}, inserted |-> {}]
    ELSE LET pass(i) == retrain_kind(symbol, RetrainKinds[i],
                                     train_ok[RetrainKinds[i]], at)
             n == Len(RetrainKinds)
         IN  [report |-> [symbol |-> symbol,
                          models |-> [kind \in {RetrainKinds[i] : i \in 1..n} |->
                                        pass(CHOOSE i \in 1..n : RetrainKinds[i] = kind).entry]],
              saved |-> {RetrainKinds[i] : i \in {j \in 1..n : pass(j).saved}},
              inserted |-> UNION {pass(i).inserted : i \in 1..n}]

\* A retrain of one symbol: svc_out is the report with the kinds saved to
\* the registry, perf gains the records inserted.
Retrain(symbol, has_data, train_ok) ==
    LET r == ForecastService_retrain_models_report(symbol, has_data, train_ok,
                                                   Cardinality(perf) + 1)
    IN  /\ perf' = perf \cup r.inserted
        /\ svc_out' = [op |-> "retrain_models", kind |-> "", steps |-> 0,
                       arg |-> [symbol |-> symbol, has_data |-> has_data,
                                train_ok |-> train_ok, saved |-> r.saved],
                       res |-> Ok(r.report)]
        /\ UNCHANGED <<fcVars, trainer, registry, db_rows, ensVars, results,
                       eval_out, schedVars>>

RetrainKindSet == {RetrainKinds[i] : i \in 1..Len(RetrainKinds)}

NextRetrain ==
    \E symbol \in SymbolSet, has_data \in BOOLEAN,
       train_ok \in [RetrainKindSet -> BOOLEAN] :
          Retrain(symbol, has_data, train_ok)

SpecRetrain == Init /\ [][NextRetrain]_vars

----------------------------------------------------------------------------
\* The ARIMA order search (models/arima_model.py, find_best_params).

common_orders ==
    << <<0, 1, 1>>, <<1, 1, 1>>, <<2, 1, 1>>, <<1, 1, 2>>, <<2, 1, 2>>,
       <<0, 1, 2>>, <<1, 1, 0>>, <<2, 1, 0>>, <<0, 2, 1>>, <<1, 2, 1>>,
       <<3, 1, 3>>, <<4, 1, 4>>, <<1, 2, 2>>, <<2, 2, 2>> >>

\* max_p=5, max_d=3, max_q=5
DefaultMaxP == 5
DefaultMaxD == 3
DefaultMaxQ == 5

CommonOrderSet == {common_orders[i] : i \in 1..Len(common_orders)}

\* The orders of the three nested range() loops, in their order.
grid_orders ==
    LET nd == DefaultMaxD + 1
        nq == DefaultMaxQ + 1
    IN  [i \in 1..((DefaultMaxP + 1) * nd * nq) |->
            <<(i - 1) \div (nd * nq), ((i - 1) \div nq) % nd, (i - 1) % nq>>]

\* ARIMA(series, order).fit(): the fit of an order raises, or gives a model
\* with an aic.  Orders the outcomes do not name raise.
fit(outcomes, order) ==
    IF order \in DOMAIN outcomes THEN outcomes[order] ELSE Raise("fit")

\* One loop over candidate orders from position i on: a candidate whose fit
\* raises is skipped, one with a strictly lower aic becomes the best.
RECURSIVE search(_, _, _, _, _)
search(outcomes, orders, skip, i, best) ==
    IF i > Len(orders) THEN best
    ELSE LET fitted == fit(outcomes, orders[i])
             next == IF orders[i] \in skip \/ fitted.err # "" THEN best
                     ELSE IF RLt(fitted.val, best.aic)
                     THEN [params |-> orders[i], aic |-> fitted.val]
                     ELSE best
         IN  search(outcomes, orders, skip, i + 1, next)

\* best_aic = np.inf, best_params = (1, 1, 1); the common orders; the grid
\* when best_aic > np.inf * 0.9.
ARIMAForecaster_find_best_params(outcomes) ==
    LET common == search(outcomes, common_orders, {}, 1,
                         [params |-> <<1, 1, 1>>, aic |-> Inf(1)])
    IN  IF RLt(RMul(Inf(1), Rat(9, 10)), common.aic)
        THEN search(outcomes, grid_orders, CommonOrderSet, 1, common)
        ELSE common

\* The orders whose fit is let succeed: the first and the last common order
\* and the default, and two orders only the grid has.
SampleOrders == {<<0, 1, 1>>, <<1, 1, 1>>, <<2, 2, 2>>, <<0, 0, 0>>, <<5, 3, 5>>}

AicValues == {FromInt(-1), FromInt(2)}

FitOutcomes == [SampleOrders -> {Raise("fit")} \cup {Ok(a) : a \in AicValues}]

ARIMA_FindBestParams(outcomes) ==
    /\ out' = FcOut("find_best_params", "arima", 0, outcomes,
                    Ok(ARIMAForecaster_find_best_params(outcomes)))
    /\ UNCHANGED <<ma, arima, var, lstm, gru, svcVars, ensVars, evalVars, schedVars>>

NextOrderSearch == \E outcomes \in FitOutcomes : ARIMA_FindBestParams(outcomes)

SpecOrderSearch == Init /\ [][NextOrderSearch]_vars

----------------------------------------------------------------------------
\* The recursive rollout of the LSTM and GRU forecasters (predict, the loop
\* over range(steps)).  A window is a sequence of rows, a row the sequence
\* of its scaled features with the Close price first; two of the eight
\* feature columns are kept, Close and Volume.

\* scaled_data[-sequence_length:]
last_rows(scaled_data, sequence_length) ==
    SubSeq(scaled_data, Len(scaled_data) - sequence_length + 1, Len(scaled_data))

\* np.roll(current_sequence, -1, axis=1): every row moves one place towards
\* the front and the first row comes round to the last place.
np_roll(current_sequence) ==
    [i \in 1..Len(current_sequence) |->
        current_sequence[(i % Len(current_sequence)) + 1]]

\* current_sequence[0, -1, 0] = next_pred[0, 0]
set_last_close(current_sequence, next_pred) ==
    [current_sequence EXCEPT ![Len(current_sequence)][1] = next_pred]

\* The Close column of the frame the scaler was fitted to runs over Prices:
\* data_min_ is 10 and data_range_ is 10.
inverse_transform_close(x) == RAdd(RMul(x, FromInt(10)), FromInt(10))

\* The loop from iteration k on: network_output[k] is what the network
\* answers to the window of iteration k.  Returns the predictions and the
\* window left by every iteration.
RECURSIVE rollout_from(_, _, _, _, _)
rollout_from(current_sequence, network_output, k, predictions, windows) ==
    IF k > Len(network_output)
    THEN [predictions |-> [i \in 1..Len(predictions) |->
                              inverse_transform_close(predictions[i])],
          windows |-> windows]
    ELSE LET next_pred == network_output[k]
             rolled == set_last_close(np_roll(current_sequence), next_pred)
         IN  rollout_from(rolled, network_output, k + 1,
                          Append(predictions, next_pred), Append(windows, rolled))

rollout(scaled_data, sequence_length, network_output) ==
    rollout_from(last_rows(scaled_data, sequence_length), network_output, 1,
                 <<>>, <<>>)

\* Scaled frames: row j of n has Close j/4 and Volume j/5.
ScaledFrame(n) == [j \in 1..n |-> <<Rat(j, 4), Rat(j, 5)>>]

MaxScaledRows == 3   \* most rows of a scaled frame given to the rollout

\* What the network answers, as a scaled Close price.
NetworkOutputs == {FromInt(0), Rat(1, 3), FromInt(1)}

Neural_Rollout(kind, sequence_length, n, network_output) ==
    /\ out' = FcOut("rollout", kind, Len(network_output),
                    [scaled_data |-> ScaledFrame(n),
                     sequence_length |-> sequence_length,
                     network_output |-> network_output],
                    Ok(rollout(ScaledFrame(n), sequence_length, network_output)))
    /\ UNCHANGED <<ma, arima, var, lstm, gru, svcVars, ensVars, evalVars, schedVars>>

NextRollout ==
    \E kind \in {"lstm", "gru"}, sequence_length \in 1..MaxWindow :
       \E n \in sequence_length..MaxScaledRows, steps \in 0..MaxSteps :
          \E network_output \in [1..steps -> NetworkOutputs] :
             Neural_Rollout(kind, sequence_length, n, network_output)

SpecRollout == Init /\ [][NextRollout]_vars

----------------------------------------------------------------------------
\* A weekly-retrain firing and a forecast-refresh firing running side by
\* side in the executor's thread pool.  Each job body logs its start, works
\* through the symbols and logs its completion; sched is the log the two
\* write to, and a job's place in its body is the number of its lines.

ConcurrentJobs == {"weekly_model_retrain", "hourly_forecast_refresh"}

Lines(log, job) == Cardinality({i \in 1..Len(log) : log[i].job = job})

\* The symbol a job body is about to work on, once started and not through.
AtSymbol(log, job) ==
    Lines(log, job) >= 1 /\ Lines(log, job) <= Len(SchedulerSymbols)

NextSymbol(log, job) == SchedulerSymbols[Lines(log, job)]

\* How the training of the five kinds can go for one symbol.
TrainOutcomes ==
    {[kind \in RetrainKindSet |-> ok] : ok \in BOOLEAN}
        \cup {[kind \in RetrainKindSet |-> kind \notin {"lstm", "gru"}]}

Conc_Start(job) ==
    /\ Lines(sched, job) = 0
    /\ sched' = Append(sched, LogLine(job, "", "start"))
    /\ sched_out' = LifecycleOut(job, "", [log |-> "start"])
    /\ UNCHANGED <<fcVars, svcVars, ensVars, evalVars, scheduler>>

\* One pass of the refresh loop: the forecast request and the line logged.
\* forecast_ensemble reads the data and the model and writes nothing.
Conc_RefreshSymbol ==
    LET job == "hourly_forecast_refresh"
        symbol == NextSymbol(sched, job)
        what == symbol_attempt(job, symbol, <<>>)
    IN  /\ AtSymbol(sched, job)
        /\ sched' = Append(sched, LogLine(job, symbol,
                                          IF what = "raise" THEN "error" ELSE what))
        /\ sched_out' = LifecycleOut(job, symbol, [log |-> what])
        /\ UNCHANGED <<fcVars, svcVars, ensVars, evalVars, scheduler>>

\* One pass of the retrain loop: retrain_models for the symbol, the records
\* it inserts and the models it saves (a saved model would replace the
\* artifact the registry holds).  Nothing is saved, so the registry stays as
\* it is.
Conc_RetrainSymbol(train_ok) ==
    LET job == "weekly_model_retrain"
        symbol == NextSymbol(sched, job)
        r == ForecastService_retrain_models_report(symbol, TRUE, train_ok,
                                                   Cardinality(perf) + 1)
    IN  /\ AtSymbol(sched, job)
        /\ perf' = perf \cup r.inserted
        /\ registry' = IF r.saved = {} THEN registry
                       ELSE [f \in DOMAIN registry |-> Some(symbol)]
        /\ sched' = Append(sched, LogLine(job, symbol, "retrained"))
        /\ sched_out' = LifecycleOut(job, symbol,
                            [log |-> "retrained", saved |-> r.saved,
                             trained |-> {kind \in RetrainKindSet : train_ok[kind]}])
        /\ UNCHANGED <<fcVars, trainer, db_rows, svc_out, ensVars, results,
                       eval_out, scheduler>>

Conc_Complete(job) ==
    /\ Lines(sched, job) = Len(SchedulerSymbols) + 1
    /\ sched' = Append(sched, LogLine(job, "", "completed"))
    /\ sched_out' = LifecycleOut(job, "", [log |-> "completed"])
    /\ UNCHANGED <<fcVars, svcVars, ensVars, evalVars, scheduler>>

NextConcurrent ==
    \/ \E job \in ConcurrentJobs : Conc_Start(job)
    \/ Conc_RefreshSymbol
    \/ \E train_ok \in TrainOutcomes : Conc_RetrainSymbol(train_ok)
    \/ \E job \in ConcurrentJobs : Conc_Complete(job)

SpecConcurrent == Init /\ [][NextConcurrent]_vars

----------------------------------------------------------------------------
\* Claims about the moving-average forecaster (checked under SpecMA).

\* The integer sum of the numerators of s[from..to] (the prices are integers).
RECURSIVE IntSum(_, _, _)
IntSum(s, from, to) == IF from > to THEN 0 ELSE s[from][1] + IntSum(s, from + 1, to)

AllEqual(s, c) == \A i \in 1..Len(s) : s[i] = FromInt(c)

\* C4: for a training series of length n >= 1, window w >= 1 and horizon h,
\* predict returns h copies of the arithmetic mean of the last min(w, n)
\* values of the training series.
C4_MovingAverageIsWindowMean ==
    (out.op = "predict" /\ out.kind = "ma" /\ ma.trained_data.some
        /\ Len(ma.trained_data.val) >= 1)
    => LET s == ma.trained_data.val
           n == Len(s)
           k == Min(ma.window_size, n)
       IN  /\ out.res.err = ""
           /\ Len(out.res.val) = out.steps
           /\ \A i \in 1..out.steps :
                 /\ out.res.val[i][2] > 0
                 /\ out.res.val[i][1] * k = IntSum(s, n - k + 1, n) * out.res.val[i][2]

\* C4 witness: window 1 over [10, 20] predicts [20, 20] for h = 2.
C4_Witness ==
    /\ out.op = "predict" /\ out.kind = "ma" /\ out.steps = 2
    /\ ma.window_size = 1
    /\ ma.trained_data = Some(<<FromInt(10), FromInt(20)>>)
    /\ out.res = Ok(<<FromInt(20), FromInt(20)>>)

----------------------------------------------------------------------------
\* Claims about the five forecasters (checked under SpecForecaster).

\* Whether the forecaster of a kind holds a fitted model: the field its
\* predict tests.
IsTrained(kind) ==
    CASE kind = "ma"    -> ma.trained_data.some
      [] kind = "arima" -> arima.fitted_model
      [] kind = "var"   -> var.fitted_model
      [] kind = "lstm"  -> lstm.model
      [] kind = "gru"   -> gru.model
      [] OTHER          -> FALSE

Kinds == {"ma", "arima", "var", "lstm", "gru"}

TrainedKinds == {k \in Kinds : IsTrained(k)}

\* The frame handed to a sequence-learning predict holds a full window.
FrameHoldsWindow ==
    /\ out.kind = "lstm" => out.arg >= lstm.sequence_length
    /\ out.kind = "gru" => out.arg >= gru.sequence_length

\* C1: for every forecaster variant that has been trained successfully and
\* every horizon h >= 1, predict with steps=h returns exactly h values.
C1_PredictReturnsHorizon ==
    (out.op = "predict" /\ out.kind \in Kinds /\ out.steps >= 1
        /\ IsTrained(out.kind) /\ FrameHoldsWindow)
    => (out.res.err = "" /\ Len(out.res.val) = out.steps)

\* C1, the variants other than VAR: these do return exactly h values.
C1_HoldsExceptVAR ==
    (out.op = "predict" /\ out.kind \in Kinds \ {"var"} /\ out.steps >= 1
        /\ IsTrained(out.kind) /\ FrameHoldsWindow)
    => (out.res.err = "" /\ Len(out.res.val) = out.steps)

\* C3: predict on a forecaster that is not trained fails with the
\* not-trained error for any horizon and leaves it untrained; a successful
\* train makes it trained, and predict on a trained forecaster does not
\* fail with the not-trained error.
C3_Step ==
    /\ (out'.op = "predict" /\ out'.kind \in Kinds)
       => /\ out'.kind \notin TrainedKinds
                => /\ <<ma, arima, var, lstm, gru>>' = <<ma, arima, var, lstm, gru>>
                   /\ out'.res = Raise(NotTrained)
          /\ out'.kind \in TrainedKinds => out'.res.err # NotTrained
    /\ (out'.op = "train" /\ out'.kind \in Kinds /\ out'.res.err = "")
       => out'.kind \in TrainedKinds'

C3_NotTrainedError == [][C3_Step]_vars

\* C3 witness: a sequence-learning forecaster that was never trained
\* refuses a 2-step predict on a full frame.
C3_Witness ==
    /\ out.op = "predict" /\ out.kind = "lstm" /\ out.steps = 2
    /\ out.arg >= lstm.sequence_length
    /\ ~lstm.model
    /\ out.res = Raise(NotTrained)

----------------------------------------------------------------------------
\* Claims about the forecast service (checked under SpecService).

StemOf(model) ==
    CASE model = "moving_average" -> "movingaverage"
      [] model = "arima" -> "arima"
      [] model = "var" -> "var"

HasDataAndModel(model) ==
    db_rows > 0 /\ registry[PklFile(StemOf(model))].some

\* C2: for every step count s >= 1 and a symbol with stored data and a
\* stored model, forecast_moving_average, forecast_arima and forecast_var
\* return exactly s predictions, and so does the unified forecast endpoint
\* for every horizon.
C2_ServiceReturnsRequestedSteps ==
    (svc_out.op \in {"forecast", "get_forecast"} /\ svc_out.kind \in EndpointModels
        /\ svc_out.steps >= 1 /\ HasDataAndModel(svc_out.kind))
    => /\ svc_out.res.err = ""
       /\ svc_out.op = "forecast" => Len(svc_out.res.val.predictions) = svc_out.steps
       /\ svc_out.op = "get_forecast" => Len(svc_out.res.val) = svc_out.steps

\* C2 at the default step count: moving average and ARIMA return 24 values
\* for steps = 24.
C2_HoldsAtDefaultSteps ==
    (svc_out.op \in {"forecast", "get_forecast"} /\ svc_out.kind \in {"moving_average", "arima"}
        /\ svc_out.steps = DefaultSteps /\ HasDataAndModel(svc_out.kind))
    => /\ svc_out.res.err = ""
       /\ svc_out.op = "forecast" => Len(svc_out.res.val.predictions) = svc_out.steps
       /\ svc_out.op = "get_forecast" => Len(svc_out.res.val) = svc_out.steps

\* What the code does instead: whatever steps is asked for, the moving
\* average and ARIMA return DefaultSteps values and VAR returns an error.
C2_ServiceIgnoresSteps ==
    (svc_out.op = "forecast" /\ svc_out.kind \in EndpointModels
        /\ HasDataAndModel(svc_out.kind))
    => IF svc_out.kind = "var" THEN svc_out.res.err = "TypeError"
       ELSE svc_out.res.err = "" /\ Len(svc_out.res.val.predictions) = DefaultSteps

----------------------------------------------------------------------------
\* Claims about the ensemble (checked under SpecEnsemble).

SomeWeightPositive(self) ==
    \E k \in DOMAIN self.weights : RLt(FromInt(0), self.weights[k])

NoWeightNegative(self) ==
    \A k \in DOMAIN self.weights : RLe(FromInt(0), self.weights[k])

WeightsSum(self) == SumValues(self.weights, DOMAIN self.weights)

\* C6: whenever at least one weight is positive (the others being whatever
\* add_model or set_weights accepted), the weights sum to 1 after
\* normalize_weights.
C6_Step ==
    (ens_out'.op = "normalize_weights" /\ SomeWeightPositive(ens))
    => WeightsSum(ens') = FromInt(1)

C6_NormalizedWeightsSumToOne == [][C6_Step]_vars

\* C6 restricted to weight maps without a negative weight.
C6_StepNonNegative ==
    (ens_out'.op = "normalize_weights" /\ SomeWeightPositive(ens) /\ NoWeightNegative(ens))
    => WeightsSum(ens') = FromInt(1)

C6_HoldsForNonNegativeWeights == [][C6_StepNonNegative]_vars

\* The members of the call recorded in o that returned a prediction.
Contributors(self, o) == Predicted(self, o.arg)

AllReturnAtLeastSteps(self, o) ==
    /\ self.models # {}
    /\ \A n \in self.models :
          /\ member_predict(o.arg[n]).err = ""
          /\ Len(member_predict(o.arg[n]).val) >= o.steps

\* sum over the members M of weight(m) * prediction_m[i], with each
\* prediction taken as the call fitted it to `steps` values
WeightedTerm(self, o, M, i) ==
    SumValues([n \in M |-> RMul(self.weights[n],
                  FitToSteps(member_predict(o.arg[n]).val, o.steps)[i])], M)

WeightTotal(self, M) == SumValues([n \in M |-> self.weights[n]], M)

\* C7: when every member returns at least `steps` values, step i of the
\* ensemble prediction is the sum of weight(m) * prediction_m[i] over the
\* members divided by the sum of the members' weights.
C7_Step ==
    (ens_out'.op = "predict" /\ AllReturnAtLeastSteps(ens, ens_out'))
    => /\ ens_out'.res.err = ""
       /\ WeightTotal(ens, ens.models) # FromInt(0)
            => \A i \in 1..ens_out'.steps :
                  ens_out'.res.val[i] =
                      RDiv(WeightedTerm(ens, ens_out', ens.models, i),
                           WeightTotal(ens, ens.models))

C7_WeightedAverage == [][C7_Step]_vars

\* C7 for ensembles whose weights have a positive sum.
C7_StepPositiveTotal ==
    (ens_out'.op = "predict" /\ AllReturnAtLeastSteps(ens, ens_out')
        /\ RLt(FromInt(0), WeightTotal(ens, ens.models)))
    => /\ ens_out'.res.err = ""
       /\ \A i \in 1..ens_out'.steps :
             ens_out'.res.val[i] =
                 RDiv(WeightedTerm(ens, ens_out', ens.models, i),
                      WeightTotal(ens, ens.models))

C7_HoldsForPositiveTotal == [][C7_StepPositiveTotal]_vars

\* The ensemble with the members of F removed, the other weights unchanged.
Without(self, F) ==
    [self EXCEPT !.models  = self.models \ F,
                 !.weights = [k \in (DOMAIN self.weights) \ F |-> self.weights[k]]]

Failing(self, o) == self.models \ Contributors(self, o)

\* C8: when a non-empty proper subset F of the members fails, predict does
\* not abort and returns what the ensemble without F returns: the weighted
\* sum divided by the sum of the contributing members' weights.
C8_Step ==
    LET o == ens_out'
        F == Failing(ens, o)
        M == Contributors(ens, o)
    IN  (o.op = "predict" /\ F # {} /\ M # {})
        => /\ o.res.err = ""
           /\ o.res = EnsembleForecaster_predict(
                          Without(ens, F), o.steps, [n \in M |-> o.arg[n]])
           /\ RLt(FromInt(0), WeightTotal(ens, M))
                => \A i \in 1..o.steps :
                      o.res.val[i] = RDiv(WeightedTerm(ens, o, M, i), WeightTotal(ens, M))

C8_FailedMembersAreLeftOut == [][C8_Step]_vars

\* Both members weigh 1/2, A fails, B predicts [20]: the result is [20].
C8_Witness ==
    /\ ens_out.op = "predict" /\ ens_out.steps = 1
    /\ ens.models = Names
    /\ \A n \in Names : ens.weights[n] = Rat(1, 2)
    /\ ens_out.arg["A"].pos.err = "ValueError"
    /\ ens_out.arg["B"].pos = Ok(Ramp(20, 1))
    /\ ens_out.res = Ok(<<FromInt(20)>>)

\* C9: on an ensemble with at least one member, predict fails with the
\* no-valid-predictions error exactly when every member fails; when some
\* member returns a prediction the result has `steps` values.
C9_Step ==
    LET o == ens_out'
        M == Contributors(ens, o)
    IN  (o.op = "predict" /\ ens.models # {})
        => /\ o.res.err = NoValidPredictions <=> M = {}
           /\ M # {} => o.res.err = "" /\ Len(o.res.val) = o.steps

C9_FailsOnlyWhenAllFail == [][C9_Step]_vars

\* Two members, both failing: the call raises the no-valid-predictions error.
C9_Witness ==
    /\ ens_out.op = "predict"
    /\ ens.models = Names
    /\ \A n \in Names : member_predict(ens_out.arg[n]).err # ""
    /\ ens_out.res = Raise(NoValidPredictions)

\* Two members, one failing, steps = MaxSteps: a result of MaxSteps values.
C9_WitnessPartial ==
    /\ ens_out.op = "predict" /\ ens_out.steps = MaxSteps
    /\ ens.models = Names
    /\ Cardinality(Contributors(ens, ens_out)) = 1
    /\ ens_out.res.err = "" /\ Len(ens_out.res.val) = MaxSteps

----------------------------------------------------------------------------
\* Claims about the ensemble's weights (checked under SpecWeights).

\* C11: after optimize_weights returns, every stored weight is >= 0 and the
\* stored weights sum to 1, also when some but not all members failed to
\* predict on the validation frame.
C11_Step ==
    (ens_out'.op = "optimize_weights" /\ ens_out'.res.err = "")
    => NoWeightNegative(ens') /\ WeightsSum(ens') = FromInt(1)

C11_OptimizedWeightsSumToOne == [][C11_Step]_vars

\* C11 for the calls in which every member predicted.
C11_StepAllPredict ==
    (ens_out'.op = "optimize_weights" /\ ens_out'.res.err = ""
        /\ ens_out'.arg = ens.models)
    => NoWeightNegative(ens') /\ WeightsSum(ens') = FromInt(1)

C11_HoldsWhenAllPredict == [][C11_StepAllPredict]_vars

----------------------------------------------------------------------------
\* Claims about persisted models (checked under SpecPersist).

\* The trainer holds a model under `name`, its file is the one the save step
\* writes for it, and svc_out is what load_model returns for it.
LoadedAfterSave(name) ==
    /\ svc_out.op = "load_model" /\ svc_out.kind = name
    /\ trainer.models[name].some
    /\ SaveSucceeds(trainer.models[name].val)
    /\ registry[SavePath(name, trainer.models[name].val)]
          = Some(FileContent(trainer.models[name].val))
    /\ svc_out.res = ForecastService_load_model(registry, name)

\* Frames given to predict: as long as each sequence length in use.
PredictRows == SequenceLengths

SamePredictions(a, b) ==
    \A rows \in PredictRows, h \in 1..MaxSteps :
        Forecaster_predict(a, rows, h) = Forecaster_predict(b, rows, h)

\* C12: for every model kind and every hyperparameter setting, a trained
\* forecaster saved by the trainer's save step and loaded with load_model
\* predicts, for every horizon and frame, what it predicted before.
C12_RoundTripKeepsPredictions ==
    \A name \in TrainerNames :
        LoadedAfterSave(name)
        => /\ svc_out.res.err = ""
           /\ SamePredictions(svc_out.res.val, trainer.models[name].val)

\* C12 for the classical kinds and for sequence-learning forecasters built
\* with the default sequence length.
C12_HoldsForDefaultSequenceLength ==
    \A name \in TrainerNames :
        (LoadedAfterSave(name)
            /\ (name \in NeuralNames
                  => trainer.models[name].val.obj.sequence_length = DefaultSequenceLength))
        => /\ svc_out.res.err = ""
           /\ SamePredictions(svc_out.res.val, trainer.models[name].val)

----------------------------------------------------------------------------
\* Claims about the rankings (checked under SpecRankings).

Scope(symbol) == {r \in perf : symbol = NoSymbol \/ r.symbol = symbol}

\* The record of `name` with the greatest timestamp in the scope.
LatestRecord(symbol, name) ==
    CHOOSE r \in Scope(symbol) :
        /\ r.model_name = name
        /\ \A q \in Scope(symbol) : q.model_name = name => q.timestamp <= r.timestamp

RankedNames(symbol) == {r.model_name : r \in Scope(symbol)}

\* C13: for every metric and scope, the scores are the metric values of each
\* model's latest record in the scope, best has the smallest of them and
\* worst the largest.
C13_RankingsUseLatestRecords ==
    (eval_out.op = "calculate_model_rankings" /\ Scope(eval_out.arg) # {})
    => /\ eval_out.res.err = ""
       /\ \A m \in 1..Len(Metrics) :
            LET rk == eval_out.res.val[Metrics[m]]
                latest(n) == LatestRecord(eval_out.arg, n).metrics[Metrics[m]]
            IN  /\ DOMAIN rk.scores = RankedNames(eval_out.arg)
                /\ \A n \in RankedNames(eval_out.arg) : rk.scores[n] = latest(n)
                /\ rk.best \in RankedNames(eval_out.arg)
                /\ rk.worst \in RankedNames(eval_out.arg)
                /\ \A n \in RankedNames(eval_out.arg) :
                      RLe(latest(rk.best), latest(n)) /\ RLe(latest(n), latest(rk.worst))

\* Unscoped ranking over three records: arima's older record has the lower
\* rmse, its newer one the higher, and lstm's record lies between in time;
\* by rmse lstm is best and arima worst.
C13_Witness ==
    /\ eval_out.op = "calculate_model_rankings" /\ eval_out.arg = NoSymbol
    /\ Cardinality(perf) = 3
    /\ \E old \in perf, new \in perf, other \in perf :
          /\ old.model_name = "arima" /\ new.model_name = "arima"
          /\ other.model_name = "lstm"
          /\ old.timestamp < other.timestamp /\ other.timestamp < new.timestamp
          /\ old.metrics.rmse = FromInt(1) /\ new.metrics.rmse = FromInt(2)
          /\ other.metrics.rmse = FromInt(1)
    /\ eval_out.res.val["rmse"].best = "lstm"
    /\ eval_out.res.val["rmse"].worst = "arima"

----------------------------------------------------------------------------
\* Claims about the scheduler (checked under SpecScheduler).

\* How often `job` logs `what` (with no symbol) in the log.
Times(log, job, what) ==
    Cardinality({i \in 1..Len(log) : log[i] = LogLine(job, "", what)})

\* The job bodies that correspond to a category.
Corresponding(c) ==
    CASE c = "data" -> {"daily_data_update"}
      [] c = "forecast" -> {"hourly_forecast_refresh"}
      [] c = "sentiment" -> {"sentiment_update"}
      [] c = "models" -> {"weekly_model_retrain"}
      [] c = "all" -> {JobBodies[k] : k \in 1..Len(JobBodies)}
      [] OTHER -> {}

\* C14: trigger_manual_update(c) runs, to completion and before it returns,
\* exactly once each of the job bodies that correspond to c and no other:
\* one body for data, forecast, sentiment and models, all four for all, none
\* for any other string.
C14_TriggerRunsCorrespondingJobs ==
    sched_out.op = "trigger_manual_update"
    => /\ sched_out.res.err = ""
       /\ \A k \in 1..Len(JobBodies) :
            LET n == IF JobBodies[k] \in Corresponding(sched_out.arg) THEN 1 ELSE 0
            IN  /\ Times(sched, JobBodies[k], "start") = n
                /\ Times(sched, JobBodies[k], "completed") = n

\* The trigger for "all" has run the four job bodies.
C14_Witness ==
    /\ sched_out.op = "trigger_manual_update" /\ sched_out.arg = "all"
    /\ \A k \in 1..Len(JobBodies) : Times(sched, JobBodies[k], "completed") = 1

\* The symbols a job's loop logged, in the order it logged them.
RECURSIVE Attempted(_, _)
Attempted(log, job) ==
    IF log = <<>> THEN <<>>
    ELSE (IF Head(log).job = job /\ Head(log).symbol # ""
          THEN <<Head(log).symbol>> ELSE <<>>) \o Attempted(Tail(log), job)

\* C15: in every run of the data-refresh, forecast-refresh and weekly-retrain
\* job bodies, each symbol of the list is attempted exactly once, in list
\* order, whichever symbols fail, and no failure leaves the job body.
C15_EverySymbolAttempted ==
    \A job \in LoopJobs :
        Times(sched, job, "start") > 0
        => /\ Attempted(sched, job) = SchedulerSymbols
           /\ Times(sched, job, "completed") = Times(sched, job, "start")
           /\ sched_out.res.err = ""

\* A data refresh in which the first symbol failed and the last succeeded.
C15_Witness ==
    /\ sched_out.op = "daily_data_update"
    /\ Len(sched) = Len(SchedulerSymbols) + 2
    /\ sched[2] = LogLine("daily_data_update", SchedulerSymbols[1], "error")
    /\ sched[Len(sched) - 1]
          = LogLine("daily_data_update", SchedulerSymbols[Len(SchedulerSymbols)], "updated")

----------------------------------------------------------------------------
\* Claims about the metric computations (checked under SpecEvaluator).

HasNaNMetric(metrics) ==
    IsNaN(metrics.rmse2) \/ IsNaN(metrics.mae) \/ IsNaN(metrics.mape)

\* The number of compared values of the last evaluator call.
Overlap ==
    IF eval_out.op = "calculate_metrics"
    THEN Min(Len(eval_out.arg[1]), Len(eval_out.arg[2]))
    ELSE Len(eval_out.arg[1])

\* C16: when the overlap between actual values and predictions has length
\* zero, calculate_metrics and evaluate_model fail explicitly: neither
\* returns, nor records in the results, metrics holding a NaN.
C16_EmptyOverlapFailsExplicitly ==
    /\ (eval_out.op = "calculate_metrics" /\ Overlap = 0)
            => eval_out.res.err # ""
    /\ (eval_out.op = "evaluate_model" /\ Overlap = 0)
            => (eval_out.res.err # "" \/ ~eval_out.res.val.some)
    /\ \A i \in 1..Len(results) : ~HasNaNMetric(results[i].metrics)

\* C16 for the calls with a non-empty overlap of non-zero actual values: the
\* metrics returned and recorded hold no NaN.
C16_HoldsForNonEmptyOverlap ==
    /\ (eval_out.op = "calculate_metrics" /\ Overlap > 0 /\ eval_out.res.err = ""
            /\ \A i \in 1..Overlap : eval_out.arg[1][i] # FromInt(0))
            => ~HasNaNMetric(eval_out.res.val)
    /\ \A i \in 1..Len(results) :
            results[i].test_data_length > 0 => ~HasNaNMetric(results[i].metrics)

\* The actual values compared by the last evaluator call.
ComparedActual == truncate(eval_out.arg[1], Overlap)

\* C17: whenever an actual value in the compared window is zero, a metric
\* computation flags mape as undefined (it fails, or returns no mape value)
\* instead of returning an infinite or NaN mape.
C17_ZeroActualFlagsMape ==
    (eval_out.op = "calculate_metrics"
        /\ \E i \in 1..Overlap : ComparedActual[i] = FromInt(0))
    => (eval_out.res.err # "" \/ IsFinite(eval_out.res.val.mape))

\* C17 for the windows without a zero: mape is a finite number.
C17_HoldsWithoutZeroActual ==
    (eval_out.op = "calculate_metrics" /\ Overlap > 0
        /\ \A i \in 1..Overlap : ComparedActual[i] # FromInt(0))
    => (eval_out.res.err = "" /\ IsFinite(eval_out.res.val.mape))

----------------------------------------------------------------------------
\* Claims about the ARIMA forecaster's unit (checked under SpecArima).

\* C18: when train found the series non-stationary and fitted on the
\* once-differenced series, predict(h) returns h values at the price level
\* of the training target: the forecast differences accumulated onto the
\* last observed price.
C18_PredictReturnsPriceLevel ==
    (out.op = "predict" /\ out.kind = "arima" /\ arima.fitted_model
        /\ arima.params.differenced)
    => /\ out.res.err = ""
       /\ Len(out.res.val) = out.steps
       /\ out.res.val = accumulate(arima.train_close[Len(arima.train_close)], out.arg)

\* C18 for a model fitted on the series itself: predict returns the library
\* forecast of the price level, h values.
C18_HoldsWhenNotDifferenced ==
    (out.op = "predict" /\ out.kind = "arima" /\ arima.fitted_model
        /\ ~arima.params.differenced)
    => /\ out.res.err = ""
       /\ Len(out.res.val) = out.steps
       /\ out.res.val = out.arg

----------------------------------------------------------------------------
\* Claims about training on too little data (checked under SpecForecaster).

\* The frame of the train call is below the variant's minimum.
BelowMinimum ==
    CASE out'.kind = "var"  -> out'.arg < MinVarRows
      [] out'.kind = "lstm" -> out'.arg - lstm.sequence_length < MinSequences
      [] out'.kind = "gru"  -> out'.arg - gru.sequence_length < MinSequences

\* C19: train of VAR, LSTM and GRU fails with the insufficient-data error
\* exactly when the frame is below the variant's minimum (VAR: fewer than 50
\* complete rows; LSTM, GRU: rows minus sequence_length below 100), and on
\* that failure the forecaster's whole state (fitted model, parameters,
\* fitted scaler) is what it was before the call.
C19_Step ==
    (out'.op = "train" /\ out'.kind \in {"var", "lstm", "gru"})
    => /\ BelowMinimum <=> out'.res = Raise(InsufficientData)
       /\ BelowMinimum => <<var, lstm, gru>>' = <<var, lstm, gru>>

C19_InsufficientDataLeavesState == [][C19_Step]_vars

\* C19 for VAR, and for LSTM and GRU on frames that have rows when only the
\* network is compared: the error is raised exactly below the minimum and
\* the fitted network is the one from before the call.
C19_StepNetwork ==
    (out'.op = "train" /\ out'.kind \in {"var", "lstm", "gru"}
        /\ (out'.kind = "var" \/ out'.arg > 0))
    => /\ BelowMinimum <=> out'.res = Raise(InsufficientData)
       /\ BelowMinimum
            => /\ var' = var
               /\ <<lstm.model, lstm.input_length>>' = <<lstm.model, lstm.input_length>>
               /\ <<gru.model, gru.input_length>>' = <<gru.model, gru.input_length>>

C19_HoldsForTheNetwork == [][C19_StepNetwork]_vars

----------------------------------------------------------------------------
\* Claims about the performance score (checked under SpecScore).

\* A component of the score as the claim states it: 0 for a metric that is
\* infinite, absent or null, else max(0, 100 - factor * value).
Component(metric, factor) ==
    IF metric.tag # "number" \/ metric.val = Inf(1) THEN FromInt(0)
    ELSE LET s == RSub(FromInt(100), RMul(FromInt(factor), metric.val))
         IN  IF RLt(s, FromInt(0)) THEN FromInt(0) ELSE s

StatedScore(metrics) ==
    weighted(Component(metrics.rmse, 10), Component(metrics.mae, 20),
             Component(metrics.mape, 1))

\* C20: for every performance record the score is a value in [0, 100] equal
\* to 0.4*rmse_score + 0.3*mae_score + 0.3*mape_score with rmse_score =
\* max(0, 100 - 10*rmse), mae_score = max(0, 100 - 20*mae), mape_score =
\* max(0, 100 - mape); an infinite or missing (absent or null) metric sets
\* only its own component to 0.
C20_PerformanceScore ==
    eval_out.op = "_calculate_performance_score"
    => /\ eval_out.res.err = ""
       /\ RLe(FromInt(0), eval_out.res.val) /\ RLe(eval_out.res.val, FromInt(100))
       /\ eval_out.res.val = StatedScore(eval_out.arg)

\* C20 for the records without a null metric, up to the rounding to two
\* decimals: the score lies in [0, 100] and is the stated sum rounded.
C20_HoldsWithoutNull ==
    (eval_out.op = "_calculate_performance_score"
        /\ eval_out.arg.rmse.tag # "null" /\ eval_out.arg.mae.tag # "null"
        /\ eval_out.arg.mape.tag # "null")
    => /\ eval_out.res.err = ""
       /\ RLe(FromInt(0), eval_out.res.val) /\ RLe(eval_out.res.val, FromInt(100))
       /\ eval_out.res.val = round2(StatedScore(eval_out.arg))

----------------------------------------------------------------------------
\* Claims about the performance store (checked under SpecStore).

\* C21: the performance store is append-only: in every step of retraining,
\* flushing, reading and evaluating, every stored record stays in the store
\* with its content unchanged, so the set of records only grows.
C21_Step == perf \subseteq perf'

C21_StoreIsAppendOnly == [][C21_Step]_vars

\* A flush has added to a store that already held a retraining record, and
\* a read has followed.
C21_Witness ==
    /\ eval_out.op = "find"
    /\ \E d \in perf : "id" \in DOMAIN d
    /\ \E d \in perf : "timestamp" \in DOMAIN d
    /\ Cardinality(eval_out.res.val) >= 2

----------------------------------------------------------------------------
\* Claims about the ensemble's configuration (checked under SpecWeights).

\* C22: after any sequence of add_model, set_weights, normalize_weights and
\* optimize_weights calls the key set of the weights is the set of member
\* names and every weight is non-negative; a set_weights call whose key set
\* differs from the member names fails with the configuration error and
\* leaves the stored weights unchanged.
C22_Step ==
    /\ DOMAIN ens'.weights = ens'.models
    /\ NoWeightNegative(ens')
    /\ (ens_out'.op = "set_weights" /\ ens_out'.arg # ens.models)
            => (ens_out'.res = Raise(KeyMismatch) /\ ens'.weights = ens.weights)

C22_WeightsMatchMembers == [][C22_Step]_vars

\* C22 without the sign of the weights: the key sets agree after every call
\* and a mismatching set_weights fails and changes nothing.
C22_StepKeys ==
    /\ DOMAIN ens'.weights = ens'.models
    /\ (ens_out'.op = "set_weights")
            => IF ens_out'.arg # ens.models
               THEN ens_out'.res = Raise(KeyMismatch) /\ ens' = ens
               ELSE ens_out'.res.err = ""

C22_HoldsForTheKeys == [][C22_StepKeys]_vars

----------------------------------------------------------------------------
\* Claims about the job lifecycle (checked under SpecLifecycle).

FourJobs == {"daily_data_update", "hourly_forecast_refresh",
             "weekly_model_retrain", "sentiment_update"}

StoppedStatus == [status |-> "stopped", jobs |-> {}]

RunningStatus == [status |-> "running", jobs |-> FourJobs, total_jobs |-> 4]

\* Whether the scheduler is between a start_scheduler and the next
\* stop_scheduler changes only in a step of those two calls.
C23_Step ==
    /\ sched_out'.op = "start_scheduler" => scheduler'.running
    /\ sched_out'.op = "stop_scheduler" => ~scheduler'.running
    /\ scheduler'.running # scheduler.running
       => sched_out'.op \in {"start_scheduler", "stop_scheduler"}
    /\ sched_out'.op = "get_scheduler_status"
       => sched_out'.res.val =
              IF scheduler.running THEN RunningStatus ELSE StoppedStatus
    /\ sched_out'.op = "submit"
       => /\ scheduler.running
          /\ sched_out'.arg \in FourJobs
    /\ \A id \in FourJobs :
          id \in scheduler.executing /\ id \notin scheduler'.executing
          => /\ sched_out'.op = id
             /\ scheduler'.running => id \in scheduler'.jobs

\* C23: before start_scheduler and after stop_scheduler the status is
\* 'stopped' with no jobs; from start_scheduler, called once or repeatedly,
\* until stop_scheduler it is 'running' with exactly the four job ids; a job
\* is submitted only while the scheduler runs, and every submitted job ends
\* its run and is again a scheduled job of the running scheduler.
C23_JobLifecycle ==
    /\ ~scheduler.running
    /\ [][C23_Step]_vars
    /\ \A id \in FourJobs :
          (id \in scheduler.executing) ~> (id \notin scheduler.executing)

\* The status is reported while a job is running, on a scheduler that was
\* started and not stopped.
C23_Witness ==
    /\ sched_out.op = "get_scheduler_status"
    /\ sched_out.res.val = RunningStatus
    /\ scheduler.executing # {}
    /\ sched # <<>>

----------------------------------------------------------------------------
\* Claims about retraining (checked under SpecRetrain).

Retrained == svc_out'.op = "retrain_models" /\ svc_out'.arg.has_data

\* C24: a retrain of a symbol with data reports exactly the five kinds; a
\* kind whose training succeeds is saved to the registry, adds one
\* performance record and is reported 'success'; a kind whose training
\* fails is reported 'failed' and adds nothing.
C24_Step ==
    Retrained
    => LET models == svc_out'.res.val.models
       IN  /\ DOMAIN models = RetrainKindSet
           /\ \A kind \in RetrainKindSet :
                 LET added == {d \in perf' \ perf : d.model_name = kind
                                                    /\ d.symbol = svc_out'.arg.symbol}
                 IN  IF svc_out'.arg.train_ok[kind]
                     THEN /\ models[kind].status = "success"
                          /\ kind \in svc_out'.arg.saved
                          /\ Cardinality(added) = 1
                     ELSE /\ models[kind].status = "failed"
                          /\ kind \notin svc_out'.arg.saved
                          /\ added = {}

C24_RetrainReportsEveryKind == [][C24_Step]_vars

\* What holds of the report: it has the five kinds, and a kind whose
\* training fails is 'failed' whatever the other kinds do.
C24_StepEntries ==
    Retrained
    => LET models == svc_out'.res.val.models
       IN  /\ DOMAIN models = RetrainKindSet
           /\ \A kind \in RetrainKindSet :
                 ~svc_out'.arg.train_ok[kind] => models[kind].status = "failed"

C24_HoldsForTheEntries == [][C24_StepEntries]_vars

----------------------------------------------------------------------------
\* Claims about padding and truncation in the ensemble (checked under
\* SpecEnsemble).

\* What a member that returned pred contributes to a forecast of `steps`
\* values: its values, cut after `steps` or followed by its last value.
Contribution(pred, steps) ==
    [i \in 1..steps |-> IF i <= Len(pred) THEN pred[i] ELSE pred[Len(pred)]]

Answer(n) == member_predict(ens_out.arg[n]).val

Answered == {n \in ens.models : member_predict(ens_out.arg[n]).err = ""}

Divisor == SumValues([n \in Answered |-> weights_get(ens, n)], Answered)

\* C25: with a positive divisor, every value of the ensemble forecast is
\* the sum over the answering members of weight times contribution, divided
\* by the sum of those members' weights, each weight counted once; a short
\* answer contributes its values and then its last value, a long one its
\* first `steps` values.
C25_PadOrTruncate ==
    (/\ ens_out.op = "predict"
     /\ ens_out.res.err = ""
     /\ RLt(FromInt(0), Divisor))
    => \A i \in 1..ens_out.steps :
          ens_out.res.val[i] =
              RDiv(SumValues([n \in Answered |->
                                 RMul(weights_get(ens, n),
                                      Contribution(Answer(n), ens_out.steps)[i])],
                             Answered),
                   Divisor)

\* A forecast of two members with positive weights, one of them answering
\* fewer values than asked.
C25_Witness ==
    /\ ens_out.op = "predict"
    /\ ens_out.res.err = ""
    /\ RLt(FromInt(0), Divisor)
    /\ Cardinality(Answered) = 2
    /\ \E n \in Answered : Len(Answer(n)) < ens_out.steps
    /\ \E n \in Answered : Len(Answer(n)) = ens_out.steps
    /\ \A n \in Answered : RLt(FromInt(0), weights_get(ens, n))

\* The other case: a member answers more values than asked.
C25_Truncated ==
    /\ ens_out.op = "predict"
    /\ ens_out.res.err = ""
    /\ RLt(FromInt(0), Divisor)
    /\ \E n \in Answered : Len(Answer(n)) > ens_out.steps

----------------------------------------------------------------------------
\* Claims about the ARIMA order search (checked under SpecOrderSearch).

GridOrderSet == {grid_orders[i] : i \in 1..Len(grid_orders)}

Fitted(orders) == {o \in orders \cap DOMAIN out.arg : out.arg[o].err = ""}

\* The order returned is one of `orders` with the lowest aic among them.
LowestOf(orders) ==
    /\ out.res.val.params \in orders
    /\ \A o \in orders : RLe(out.arg[out.res.val.params].val, out.arg[o].val)

\* C26: the search returns a fitted common order of lowest aic; when no
\* common order fits, a fitted grid order of lowest aic; when nothing fits,
\* the default order (1, 1, 1).
C26_OrderSearch ==
    out.op = "find_best_params"
    => IF Fitted(CommonOrderSet) # {} THEN LowestOf(Fitted(CommonOrderSet))
       ELSE IF Fitted(GridOrderSet) # {} THEN LowestOf(Fitted(GridOrderSet))
       ELSE out.res.val.params = <<1, 1, 1>>

\* What holds: a fitted common order of lowest aic is returned when there is
\* one, and the default order when no common order fits.
C26_HoldsWithoutEscalation ==
    out.op = "find_best_params"
    => IF Fitted(CommonOrderSet) # {} THEN LowestOf(Fitted(CommonOrderSet))
       ELSE out.res.val.params = <<1, 1, 1>>

----------------------------------------------------------------------------
\* Claims about the recursive rollout (checked under SpecRollout).

\* The window iteration k starts from.
WindowBefore(k) ==
    IF k = 1 THEN last_rows(out.arg.scaled_data, out.arg.sequence_length)
    ELSE out.res.val.windows[k - 1]

FeatureValues(window) ==
    {window[i][j] : i \in 1..Len(window), j \in 1..2}

Oldest(k) == WindowBefore(k)[1]

\* Feature j of the oldest row has left the window: its value, unless a row
\* that stays or the iteration's prediction has the same value, is gone.
DroppedFeature(k, j) ==
    LET stay == FeatureValues(Tail(WindowBefore(k)))
                    \cup {out.arg.network_output[k]}
    IN  Oldest(k)[j] \notin stay
        => Oldest(k)[j] \notin FeatureValues(out.res.val.windows[k])

Dropped(k) == \A j \in 1..2 : DroppedFeature(k, j)

\* C27: every iteration leaves a window of sequence_length rows from which
\* the oldest row of the window before is gone with all its features, and
\* whose newest row has the iteration's prediction as its price; the k-th
\* value returned is the inverse-normalised prediction of iteration k.
C27_Rollout ==
    out.op = "rollout"
    => /\ Len(out.res.val.predictions) = out.steps
       /\ \A k \in 1..out.steps :
             LET window == out.res.val.windows[k]
             IN  /\ Len(window) = out.arg.sequence_length
                 /\ Dropped(k)
                 /\ window[Len(window)][1] = out.arg.network_output[k]
                 /\ out.res.val.predictions[k] =
                        inverse_transform_close(out.arg.network_output[k])

\* What holds: the window's length, the prediction as the newest price and
\* the values returned.
C27_HoldsForThePrice ==
    out.op = "rollout"
    => /\ Len(out.res.val.predictions) = out.steps
       /\ \A k \in 1..out.steps :
             LET window == out.res.val.windows[k]
             IN  /\ Len(window) = out.arg.sequence_length
                 /\ DroppedFeature(k, 1)
                 /\ window[Len(window)][1] = out.arg.network_output[k]
                 /\ out.res.val.predictions[k] =
                        inverse_transform_close(out.arg.network_output[k])

----------------------------------------------------------------------------
\* Claims about the forecast refresh (checked under SpecScheduler).  The
\* call of the job body fails while its arguments are bound, before
\* anything stored for the symbol is read, so the symbols are taken to have
\* stored data and a stored ensemble model.

RefreshLines ==
    {i \in 1..Len(sched) : /\ sched[i].job = "hourly_forecast_refresh"
                           /\ sched[i].symbol # ""}

\* C28: every firing of the forecast refresh requests a forecast for each
\* symbol of the list, and each request yields a forecast, not an error.
C28_RefreshYieldsForecasts ==
    Times(sched, "hourly_forecast_refresh", "start") > 0
    => /\ {sched[i].symbol : i \in RefreshLines} = SymbolSet
       /\ \A i \in RefreshLines : sched[i].what = "refreshed"

\* What holds: each symbol is requested once, and each request ends in the
\* error the loop logs.
C28_HoldsForTheRequests ==
    Times(sched, "hourly_forecast_refresh", "start") > 0
    => /\ {sched[i].symbol : i \in RefreshLines} = SymbolSet
       /\ Cardinality(RefreshLines) = Len(SchedulerSymbols)
       /\ \A i \in RefreshLines : sched[i].what = "error"

----------------------------------------------------------------------------
\* Claims about evaluating and flushing on one evaluator (checked under
\* SpecStore).

\* The records of the store that a flush of the evaluator wrote.
Flushed(store) == {d \in store : "id" \in DOMAIN d}

C29_StepEvaluate ==
    eval_out'.op = "evaluate_model"
    => /\ perf' = perf
       /\ IF eval_out'.res.val.some
          THEN results' = Append(results, eval_out'.res.val.val)
          ELSE results' = results

\* C29: a successful evaluate_model adds its one record to the list and a
\* failed one returns none and changes nothing; after a flush the store
\* holds one flushed record for each record of the list.
C29_Step ==
    /\ C29_StepEvaluate
    /\ eval_out'.op = "save_results_to_db"
       => Cardinality(Flushed(perf')) = Len(results')

C29_EachEvaluationStoredOnce == [][C29_Step]_vars

\* What holds: evaluate_model as stated, and a flush adds one record for
\* each record of the list, flushed before or not.
C29_StepFlush ==
    /\ C29_StepEvaluate
    /\ eval_out'.op = "save_results_to_db"
       => /\ results' = results
          /\ Cardinality(Flushed(perf')) = Cardinality(Flushed(perf)) + Len(results)

C29_HoldsForEachFlush == [][C29_StepFlush]_vars

----------------------------------------------------------------------------
\* Claims about a retrain and a forecast refresh running side by side
\* (checked under SpecConcurrent).

RefreshStep == sched_out'.op = "hourly_forecast_refresh"

RetrainedSymbol ==
    /\ sched_out'.op = "weekly_model_retrain"
    /\ sched_out'.res.val.log = "retrained"

\* C30: a step of the forecast refresh writes neither the registry nor the
\* performance store, and a retrain of a symbol writes the artifact of every
\* kind it trained, so that the registry holds the artifacts of the last
\* retrain when both jobs are through.
C30_Step ==
    /\ RefreshStep => registry' = registry /\ perf' = perf
    /\ RetrainedSymbol
       => /\ sched_out'.res.val.saved = sched_out'.res.val.trained
          /\ sched_out'.res.val.trained # {} => registry' # registry

C30_LastRetrainWriteWins == [][C30_Step]_vars

\* What holds: the forecast refresh writes nothing, in any interleaving.
C30_StepRefresh ==
    RefreshStep => registry' = registry /\ perf' = perf

C30_HoldsForTheRefresh == [][C30_StepRefresh]_vars

\* Both jobs are through, the refresh having started first and ended last.
C30_BothThrough ==
    /\ Lines(sched, "weekly_model_retrain") = Len(SchedulerSymbols) + 2
    /\ Lines(sched, "hourly_forecast_refresh") = Len(SchedulerSymbols) + 2
    /\ sched[1].job = "hourly_forecast_refresh"
    /\ sched[Len(sched)].job = "hourly_forecast_refresh"

====
